---------------------------- MODULE Spec2Model ----------------------------
(***************************************************************************)
(* Online cardinality-learning subsystem (XGDuckDB).                       *)
(*                                                                         *)
(* Spec models RLBoostingModel (rl_boosting_model.cpp, kept in             *)
(* src/unnamed/part_007 lines 1-559, and rl_boosting_model.hpp): the       *)
(* active / shadow booster pair, the two mutexes, the atomic counters, and *)
(* the threads that call Predict, PredictBatch, IsReady, GetNumTrees,      *)
(* UpdateIncremental and ResetModel.  Every shared-memory access that a    *)
(* lock-free reader can observe is a step of its own.                      *)
(***************************************************************************)
EXTENDS Integers, Sequences, FiniteSets, TLC

\* ------------------------------------------------------------------ bounds
NumThreads == 2            \* threads calling into the model
MaxWriterCalls == 2        \* UpdateIncremental / ResetModel calls that enter the locks
MaxTotalTreesBound == 3    \* RL_MAX_TOTAL_TREES ranges over 0..MaxTotalTreesBound
MaxTreesPerUpdate == 2     \* RL_TREES_PER_UPDATE ranges over 0..MaxTreesPerUpdate
MaxSwapEvery == 2          \* RL_SWAP_EVERY_N_UPDATES ranges over 0..MaxSwapEvery
CapScenarioMaxTrees == 20         \* the cap scenario: max_total_trees
CapScenarioTreesPerUpdate == 3    \* the cap scenario: trees_per_update
CapScenarioUpdates == 10          \* the cap scenario: updates after which the cap is met
CapScenarioCalls == 16            \* the cap scenario: UpdateIncremental calls made in all
CapScenarioMaxSwapEvery == 6      \* RL_SWAP_EVERY_N_UPDATES ranges over 0..this in the scenario
MaxKeys == 3                      \* distinct cache fingerprints
MaxQueries == 2                   \* query boundaries passed on the thread
MaxPhysicalCap == 2               \* stands for MAX_PHYSICAL_PREDICTIONS in the small model
MaxCacheLimit == 1                \* stands for the 5000 of the predictor cache
MaxAsks == 3                      \* Predict calls recorded per query
MaxCollectorLimit == 1            \* stands for the 500 of the collector in the small model
MaxEstimate == 3                  \* features.estimated_cardinality ranges over 0..this
MaxAdds == 4                      \* Add* calls made on the collector
OverflowScenarioAdds == 600       \* the overflow scenario: insertions made
MaxOps == 3                       \* operators of the physical plan
MaxCard == 2                      \* cardinalities (predicted, actual) range over 0..this
MaxCapacity == 2                  \* stands for the 10 000 samples of the training buffer
MaxPushes == 3                    \* AddSample calls made on the buffer directly
MaxVisits == 2                    \* visits of one operator by the optimizer hook
MaxTrackedOps == 2                \* operators registered with the feature tracker
MaxTrackerCalls == 5              \* StartOperator / EndOperator / Reset calls made
MaxConcurrentAdds == 2            \* Add* calls made while ExtractFeatures runs
MaxWalks == 2                     \* CollectActualCardinalities calls on one plan
MaxBatch == 1                     \* rows of one EndOperator call range over 0..this
MaxRows == 1               \* rows of a PredictBatch matrix range over 0..MaxRows

\* ------------------------------------------------------- program constants
DEFAULT_SWAP_EVERY == 5           \* part_007 line 494
MAX_PHYSICAL_PREDICTIONS == 300   \* rl_model_interface.cpp line 565
PREDICTION_CACHE_LIMIT == 5000    \* rl_model_interface.cpp line 115
COLLECTOR_LIMIT == 500            \* rl_feature_collector.cpp lines 22, 31, 43, 57
INTERFACE_FEATURE_VECTOR_SIZE == 80   \* rl_model_interface.hpp line 142
TYPE_BLOCK == 10                  \* rl_model_interface.cpp line 389
SCAN_BLOCK == 24                  \* line 455
JOIN_BLOCK == 27                  \* line 529
AGGREGATE_BLOCK == 4              \* line 539
FILTER_BLOCK == 2                 \* line 547
TRACKER_ID == 1                   \* part_006 lines 19 and 34: the first tracker made
LOCAL_CACHE_CAP == 64             \* part_006 lines 67 and 98
TRAINING_WINDOW == 500            \* rl_model_interface.cpp line 708
FEATURE_VECTOR_SIZE == 80
MIN_UPDATE_SAMPLES == 10

Threads == 1..NumThreads
Null == 0                  \* nullptr booster handle
NoThread == 0              \* an unlocked mutex
Widths == {FEATURE_VECTOR_SIZE - 1, FEATURE_VECTOR_SIZE}
SampleCounts == {MIN_UPDATE_SAMPLES - 1, MIN_UPDATE_SAMPLES}
LogOutputs == {-1, 1}      \* raw log-cardinalities the library may return

Min(a, b) == IF a < b THEN a ELSE b
Max(a, b) == IF a > b THEN a ELSE b

VARIABLES
    max_total_trees, trees_per_update, swap_every,
    initialized, active_booster, training_booster,
    num_trees, total_updates,
    training_num_trees, training_total_updates, training_update_calls,
    passed,
    predict_lock, train_lock,
    live, btrees,
    pc, rd, upd, result,
    writer_calls,
    call_budget

\* the thread-local state of RLModelInterface on one thread (rl_model_interface.cpp
\* lines 49 and 566-569), the active query of its context, and the limits its
\* code compares against; epoch counts the query boundaries passed and answer
\* records what the last call did
VARIABLES
    physical_prediction_cache, cached_query_id, physical_prediction_count,
    physical_cap_logged, prediction_cache,
    query_id, epoch, physical_cap, cache_limit, answer

\* the maps of RLFeatureCollector (rl_feature_collector.cpp lines 19-61) and the
\* size its Add* methods compare against; clears and inserts count the overflow
\* clears and the Add* calls made
VARIABLES
    table_scan_features, join_features, join_features_by_relation_set,
    join_features_by_estimate, filter_features,
    size_limit, clears, inserts

\* a finished physical plan and the training buffer it is collected into
\* (rl_model_interface.cpp lines 671-780): physical holds each operator's rl_state,
\* parent the plan's shape, stack the operators the recursive walk has yet to
\* enter; visits and emitted count what the walk did to each operator, pushed is
\* every sample ever added, recent the last answer of GetRecentSamples
VARIABLES
    physical, parent, root_is_collector, phase, stack, visits, emitted,
    buffer, capacity, pushed, recent, trained

\* one logical operator on its way through the optimizer hook (part_004) and the
\* execution hook (part_001, plan_top_n.cpp): logical holds its cardinality
\* fields, engine what the engine had estimated before any hook ran, hook what
\* the optimizer hook did so far, made the physical operator built from it
VARIABLES
    logical, engine, hook, made

planning == <<logical, engine, hook, made>>

\* one call of RLModelInterface::FeaturesToVector (rl_model_interface.cpp lines
\* 367-557): the features it was given, the length of feature_vec, the positions
\* written so far, idx, and the block it has reached
VARIABLES
    fv

vectoring == <<fv>>

\* one call of RLModelInterface::ExtractFeatures (rl_model_interface.cpp lines
\* 264-365) on a thread of its own: the collector lookup it made, the pointer the
\* lookup returned (the map and key of the entry, and the entry as it was), and
\* what it copied out through the pointer
VARIABLES
    extract

extracting == <<extract>>

\* RLFeatureTracker (part_006): generation and operator_stats are its members,
\* cells the RLOperatorStats nodes ever allocated for the map, local_cache each
\* thread's thread_local RLThreadCache; at and arg are where each thread stands
\* in StartOperator / EndOperator and with what arguments; requested sums the
\* rows handed to EndOperator for an operator that was registered when the call
\* began or when it looked the operator up under the lock, resets counts the
\* Reset calls, stale records that a pointer to a removed node was dereferenced
VARIABLES
    generation, operator_stats, cells, local_cache, at, arg,
    requested, resets, stale, tracker_calls

tracker == <<generation, operator_stats, cells, local_cache, at, arg,
             requested, resets, stale, tracker_calls>>

training == <<physical, parent, root_is_collector, phase, stack, visits, emitted,
              buffer, capacity, pushed, recent, trained>>
\* what neither the model, the prediction interface nor the collector touches
beyond == <<training, planning, tracker, vectoring, extracting>>

interface == <<physical_prediction_cache, cached_query_id, physical_prediction_count,
               physical_cap_logged, prediction_cache, query_id, epoch,
               physical_cap, cache_limit, answer>>
collector == <<table_scan_features, join_features, join_features_by_relation_set,
               join_features_by_estimate, filter_features, size_limit, clears,
               inserts>>
\* what no method of RLBoostingModel touches
outside == <<interface, collector, beyond>>

config == <<max_total_trees, trees_per_update, swap_every, call_budget>>
counters == <<num_trees, total_updates>>
\* passed records every XGBoosterUpdateOneIter call made on the shadow since the
\* last reset: which UpdateIncremental call made it, with which iteration
\* number, as which i of its loop, and whether it succeeded
shadow == <<training_booster, training_num_trees, training_total_updates,
            training_update_calls, passed>>
locks == <<predict_lock, train_lock>>
heap == <<live, btrees>>
booster == <<config, initialized, active_booster, counters, shadow, locks, heap,
             pc, rd, upd, result, writer_calls>>
vars == <<booster, outside>>

\* locals of Predict / PredictBatch: the handle and tree count they loaded
\* (width: features.size() of the Predict call)
RdIdle == [booster |-> Null, trees |-> 0, rows |-> 0, width |-> 0]
\* locals of UpdateIncremental, and what the call did (iters, ok_iters, old_num,
\* base, base_updates, swapped, trained, log_lines record the call's history for
\* the properties: log_lines counts the "[RL BOOSTING] Incremental update #"
\* lines it printed)
UpdIdle == [n |-> 0, snapshot |-> Null, old_active |-> Null,
            trained |-> FALSE, log_lines |-> 0,
            new_num_trees |-> 0, new_total_updates |-> 0, trees_added |-> 0,
            reached_tree_budget |-> FALSE,
            old_num |-> 0, base |-> 0, base_updates |-> 0,
            iters |-> 0, ok_iters |-> 0, swapped |-> FALSE]

\* --------------------------------------------------------------- the heap
\* XGBoosterCreate / XGBoosterUnserializeFromBuffer: a fresh handle with n trees
NewHandle == Len(btrees) + 1
Alloc(n) == /\ live' = live \cup {NewHandle}
            /\ btrees' = Append(btrees, n)
\* XGBoosterFree
FreeSet(hs) == live \ hs

\* ------------------------------------------------------------ pure helpers
\* std::exp on the grid of LogOutputs, truncated to an integer cardinality
ExpInt(x) == CASE x = 0 -> 1
               [] x = 1 -> 2
               [] OTHER -> 0
\* Predict lines 360-368: clamp the log to >= 0, exponentiate, clamp to >= 1
ClampCardinality(log_cardinality) ==
    LET l == Max(0, log_cardinality)
        c == ExpInt(l)
    IN  IF c < 1 THEN 1 ELSE c

\* IsReady()
IsReady == initialized /\ num_trees > 1

NotReadyOffByOne(init, b, n) == ~init \/ b = Null \/ n < 1
\* Predict line 311 / PredictBatch line 385: the readiness check
NotReady(init, b, n) == ~init \/ b = Null \/ n <= 1

TreesToAddNoCap(cur) == trees_per_update
\* UpdateIncremental lines 469-470
TreesToAdd(cur) == Min(max_total_trees - cur, trees_per_update)

\* line 181: the tree count InitializeBooster stores for the dummy tree it trained
BootstrapTreesTwo == 1 + 1
BootstrapTrees == 1

\* line 439: recent_samples.size() < 10
TooFewSamplesOffByOne(n) == n < MIN_UPDATE_SAMPLES - 1
TooFewSamples(n) == n < MIN_UPDATE_SAMPLES

SwapDueAlways(calls) == TRUE
\* UpdateIncremental line 495
SwapDue(calls) == swap_every > 0 /\ (calls % swap_every) = 0

ShadowKeepsOldCount == training_num_trees
\* EnsureTrainingBooster line 233: the shadow counter restarts from num_trees
ShadowStartTrees == num_trees

PublishedTreesStale == num_trees
\* UpdateIncremental line 499: the tree count the swap publishes
PublishedTrees == training_num_trees

ResetLockOrderSwapped == <<"predict", "train">>
\* ResetModel lines 532-533
ResetLockOrder == <<"train", "predict">>

\* ----------------------------------------------------------------- Init
\* rl_model_interface.cpp lines 566-569 and 49: the thread-locals as first used
EmptyMap == [k \in {} |-> 0]
INVALID_INDEX == 0 - 1
NoAnswer == [kind |-> "none", value |-> 0, est |-> 0, asked |-> FALSE, before |-> 0,
             epoch |-> 0, asks |-> 0, was_cached |-> FALSE, cleared |-> FALSE,
             cached |-> 0]
InterfaceFresh(cap, limit) ==
    /\ physical_prediction_cache = EmptyMap
    /\ cached_query_id = INVALID_INDEX
    /\ physical_prediction_count = 0
    /\ physical_cap_logged = FALSE
    /\ prediction_cache = EmptyMap
    /\ query_id = INVALID_INDEX
    /\ epoch = 0
    /\ physical_cap = cap
    /\ cache_limit = limit
    /\ answer = NoAnswer

\* the collector singleton as constructed: every map empty
CollectorEmpty(limit) ==
    /\ table_scan_features = EmptyMap
    /\ join_features = EmptyMap
    /\ join_features_by_relation_set = EmptyMap
    /\ join_features_by_estimate = EmptyMap
    /\ filter_features = EmptyMap
    /\ size_limit = limit
    /\ clears = 0
    /\ inserts = 0

\* no plan has been built and nothing was ever pushed into the training buffer
Ops == 1..MaxOps
NoState == [attached |-> FALSE, feature_vector |-> 0,
            rl_predicted_cardinality |-> 0, duckdb_estimated_cardinality |-> 0,
            actual_cardinality |-> 0,
            has_rl_prediction |-> FALSE, has_actual_cardinality |-> FALSE]
NoPlan ==
    /\ physical = [o \in Ops |-> NoState]
    /\ stack = <<>>
    /\ visits = [o \in Ops |-> 0]
    /\ emitted = [o \in Ops |-> 0]
NoRecent == [k |-> 0, size |-> 0, upto |-> 0, samples |-> <<>>]
BufferEmpty(c) ==
    /\ buffer = <<>>
    /\ capacity = c
    /\ pushed = <<>>
    /\ recent = NoRecent
    /\ trained = FALSE
NoTree ==
    /\ parent = [o \in Ops |-> 0]
    /\ root_is_collector = FALSE
TrainingIdle ==
    /\ NoPlan
    /\ NoTree
    /\ phase = "idle"
    /\ BufferEmpty(0)
NotMade == [built |-> FALSE, kind |-> "none", estimated_cardinality |-> 0,
            rl_state |-> NoState, raw |-> 0, captured |-> 0, ready |-> FALSE]
NoHook == [visits |-> 0, rl_pred |-> 0, before |-> 0, had_estimate |-> FALSE,
           predictions |-> {}]
\* a LogicalOperator as constructed
Unestimated == [kind |-> "none", has_expressions |-> FALSE,
                estimated_cardinality |-> 0, has_estimated_cardinality |-> FALSE,
                duckdb_estimated_cardinality |-> 0,
                has_duckdb_estimated_cardinality |-> FALSE]
PlanningIdle ==
    /\ logical = Unestimated
    /\ engine = Unestimated
    /\ hook = NoHook
    /\ made = NotMade
TrackedOps == 1..MaxTrackedOps
\* part_006 lines 21-30: a thread's cache before its first use
FreshCache == [tracker_id |-> 0, generation |-> 0, entries |-> <<>>]
NoArg == [op |-> 0, rows |-> 0, counted |-> FALSE]
\* part_006 lines 32-36: the tracker as constructed (tracker_id 1), no thread
\* inside it
TrackerFresh ==
    /\ generation = 1
    /\ operator_stats = [o \in TrackedOps |-> Null]
    /\ cells = <<>>
    /\ local_cache = [t \in Threads |-> FreshCache]
    /\ at = [t \in Threads |-> "out"]
    /\ arg = [t \in Threads |-> NoArg]
    /\ requested = [o \in TrackedOps |-> 0]
    /\ resets = 0
    /\ stale = FALSE
    /\ tracker_calls = 0
NoFeatures == [table_name |-> "", column_stats |-> FALSE, join_type |-> "",
               comparison_type_join |-> "", filter_types |-> FALSE,
               aggregates |-> FALSE, operator_type |-> "",
               estimated_cardinality |-> 0]
VectorIdle == fv = [stage |-> "none", features |-> NoFeatures, size |-> 0,
                    written |-> {}, zero |-> {}, idx |-> 0]
NoLookup == [stage |-> "idle", map |-> "none", key |-> 0, found |-> FALSE,
             entry |-> 0, copied |-> 0, dangling |-> FALSE]
ExtractIdle == extract = NoLookup
BeyondIdle == TrainingIdle /\ PlanningIdle /\ TrackerFresh /\ VectorIdle /\ ExtractIdle

\* The RLBoostingModel constructor after the hyperparameters are read:
\* InitializeBooster (which leaves the model without booster when the library
\* fails), initialized = true.
Constructed ==
    /\ initialized = TRUE
    /\ \/ /\ active_booster = 1 /\ num_trees = BootstrapTrees
          /\ live = {1} /\ btrees = <<1>>
       \/ /\ active_booster = Null /\ num_trees = 0
          /\ live = {} /\ btrees = <<>>
    /\ total_updates = 0
    /\ training_booster = Null
    /\ training_num_trees = 0
    /\ training_total_updates = 0
    /\ training_update_calls = 0
    /\ passed = {}
    /\ predict_lock = NoThread
    /\ train_lock = NoThread
    /\ pc = [t \in Threads |-> "idle"]
    /\ rd = [t \in Threads |-> RdIdle]
    /\ upd = [t \in Threads |-> UpdIdle]
    /\ result = [t \in Threads |-> 0]
    /\ writer_calls = 0

Init ==
    /\ max_total_trees \in 0..MaxTotalTreesBound
    /\ trees_per_update \in 0..MaxTreesPerUpdate
    /\ swap_every \in 0..MaxSwapEvery
    /\ call_budget = MaxWriterCalls
    /\ Constructed
    /\ InterfaceFresh(0, 0)
    /\ CollectorEmpty(0)
    /\ BeyondIdle

Goto(t, l) == pc' = [pc EXCEPT ![t] = l]
Ret(t, l, v) == /\ pc' = [pc EXCEPT ![t] = l]
                /\ result' = [result EXCEPT ![t] = v]

model == <<initialized, active_booster, counters, shadow, heap>>

\* ------------------------------------------------------------- Predict
\* lines 296-306 (shutting_down is never set; the snprintf of lines 331-337
\* cannot overflow its 256-byte buffer)
PredictEntry(t) ==
    /\ pc[t] = "idle"
    /\ \E w \in Widths :
          /\ rd' = [rd EXCEPT ![t].width = w]
          /\ IF w # FEATURE_VECTOR_SIZE
             THEN Ret(t, "p_done", 0)
             ELSE Goto(t, "p_load_b") /\ UNCHANGED result
    /\ UNCHANGED <<outside, config, model, locks, upd, writer_calls>>

\* line 309
PredictLoadBooster(t) ==
    /\ pc[t] = "p_load_b"
    /\ rd' = [rd EXCEPT ![t].booster = active_booster]
    /\ Goto(t, "p_load_n")
    /\ UNCHANGED <<outside, config, model, locks, upd, result, writer_calls>>

\* line 310
PredictLoadTrees(t) ==
    /\ pc[t] = "p_load_n"
    /\ rd' = [rd EXCEPT ![t].trees = num_trees]
    /\ Goto(t, "p_check")
    /\ UNCHANGED <<outside, config, model, locks, upd, result, writer_calls>>

\* lines 311-313
PredictCheck(t) ==
    /\ pc[t] = "p_check"
    /\ IF NotReady(initialized, rd[t].booster, rd[t].trees)
       THEN Ret(t, "p_done", 0)
       ELSE Goto(t, "p_lock") /\ UNCHANGED result
    /\ UNCHANGED <<outside, config, model, locks, rd, upd, writer_calls>>

\* line 345
PredictLock(t) ==
    /\ pc[t] = "p_lock"
    /\ predict_lock = NoThread
    /\ predict_lock' = t
    /\ Goto(t, "p_infer")
    /\ UNCHANGED <<outside, config, model, train_lock, rd, upd, result, writer_calls>>

\* lines 347-375: XGBoosterPredictFromDense on the handle loaded at line 309.
\* On a live handle the library fails (0) or returns a log-cardinality; on a
\* freed handle the call is undefined: any of these, or the process dies
\* (every thread stops at "crashed").
PredictInfer(t) ==
    /\ pc[t] = "p_infer"
    /\ predict_lock' = NoThread
    /\ \/ Ret(t, "p_done", 0)
       \/ \E out \in LogOutputs : Ret(t, "p_done", ClampCardinality(out))
       \/ /\ rd[t].booster \notin live
          /\ pc' = [s \in Threads |-> "crashed"]
          /\ UNCHANGED result
    /\ UNCHANGED <<outside, config, model, train_lock, rd, upd, writer_calls>>

\* ---------------------------------------------------------- PredictBatch
\* lines 378-382: output.clear(); an empty matrix returns at once
BatchEntry(t) ==
    /\ pc[t] = "idle"
    /\ \E rows \in 0..MaxRows :
          /\ rd' = [rd EXCEPT ![t].rows = rows]
          /\ IF rows = 0
             THEN Ret(t, "b_done", <<>>)
             ELSE Ret(t, "b_load_b", <<>>)
    /\ UNCHANGED <<outside, config, model, locks, upd, writer_calls>>

\* line 383
BatchLoadBooster(t) ==
    /\ pc[t] = "b_load_b"
    /\ rd' = [rd EXCEPT ![t].booster = active_booster]
    /\ Goto(t, "b_load_n")
    /\ UNCHANGED <<outside, config, model, locks, upd, result, writer_calls>>

\* line 384
BatchLoadTrees(t) ==
    /\ pc[t] = "b_load_n"
    /\ rd' = [rd EXCEPT ![t].trees = num_trees]
    /\ Goto(t, "b_check")
    /\ UNCHANGED <<outside, config, model, locks, upd, result, writer_calls>>

\* lines 385-406: readiness, then the width of every row, then the DMatrix
BatchCheck(t) ==
    /\ pc[t] = "b_check"
    /\ IF NotReady(initialized, rd[t].booster, rd[t].trees)
       THEN Goto(t, "b_done")
       ELSE \E w \in Widths, dmat_ok \in BOOLEAN :
               IF w # FEATURE_VECTOR_SIZE \/ ~dmat_ok
               THEN Goto(t, "b_done")
               ELSE Goto(t, "b_lock")
    /\ UNCHANGED <<outside, config, model, locks, rd, upd, result, writer_calls>>

\* line 411
BatchLock(t) ==
    /\ pc[t] = "b_lock"
    /\ predict_lock = NoThread
    /\ predict_lock' = t
    /\ Goto(t, "b_infer")
    /\ UNCHANGED <<outside, config, model, train_lock, rd, upd, result, writer_calls>>

\* lines 412-430: XGBoosterPredict on the handle loaded at line 383
BatchInfer(t) ==
    /\ pc[t] = "b_infer"
    /\ predict_lock' = NoThread
    /\ \/ Goto(t, "b_done") /\ UNCHANGED result
       \/ \E outs \in [1..rd[t].rows -> LogOutputs] :
             Ret(t, "b_done", [i \in 1..rd[t].rows |-> ClampCardinality(outs[i])])
       \/ /\ rd[t].booster \notin live
          /\ pc' = [s \in Threads |-> "crashed"]
          /\ UNCHANGED result
    /\ UNCHANGED <<outside, config, model, train_lock, rd, upd, writer_calls>>

\* ------------------------------------------------ IsReady / GetNumTrees
\* rl_boosting_model.hpp lines 54-56.  The two loads are one step: num_trees > 1
\* is stored only while initialized is true, so whatever the two loads return is
\* what one of them would have returned together with the other at its instant.
IsReadyCall(t) ==
    /\ pc[t] = "idle"
    /\ Ret(t, "ready_done", IsReady)
    /\ UNCHANGED <<outside, config, model, locks, rd, upd, writer_calls>>

\* rl_boosting_model.hpp lines 59-61
GetNumTreesCall(t) ==
    /\ pc[t] = "idle"
    /\ Ret(t, "trees_done", num_trees)
    /\ UNCHANGED <<outside, config, model, locks, rd, upd, writer_calls>>

DonePcs == {"p_done", "b_done", "ready_done", "trees_done", "u_done", "r_done"}

\* the call returns to its caller; its locals die
Return(t) ==
    /\ pc[t] \in DonePcs
    /\ Ret(t, "idle", 0)
    /\ rd' = [rd EXCEPT ![t] = RdIdle]
    /\ upd' = [upd EXCEPT ![t] = UpdIdle]
    /\ UNCHANGED <<outside, config, model, locks, writer_calls>>


\* --------------------------------------------------- UpdateIncremental
\* lines 433-448: the early returns taken before any lock
UpdateEntry(t) ==
    /\ pc[t] = "idle"
    /\ \E n \in SampleCounts, dmat_ok \in BOOLEAN :
          /\ upd' = [upd EXCEPT ![t].n = n]
          /\ IF \/ ~initialized \/ active_booster = Null
                \/ TooFewSamples(n)
                \/ ~dmat_ok
             THEN Goto(t, "u_done") /\ UNCHANGED writer_calls
             ELSE /\ writer_calls < call_budget
                  /\ writer_calls' = writer_calls + 1
                  /\ Goto(t, "u_lock")
    /\ UNCHANGED <<outside, config, model, locks, rd, result>>

\* line 456, and EnsureTrainingBooster lines 223-225
UpdateLockTrain(t) ==
    /\ pc[t] = "u_lock"
    /\ train_lock = NoThread
    /\ train_lock' = t
    /\ upd' = [upd EXCEPT ![t].old_num = num_trees]
    /\ IF training_booster # Null
       THEN Goto(t, "u_train")
       ELSE Goto(t, "u_ens_lock")
    /\ UNCHANGED <<outside, config, model, predict_lock, rd, result, writer_calls>>

\* EnsureTrainingBooster line 229
EnsureLockPredict(t) ==
    /\ pc[t] = "u_ens_lock"
    /\ predict_lock = NoThread
    /\ predict_lock' = t
    /\ Goto(t, "u_ens_load")
    /\ UNCHANGED <<outside, config, model, train_lock, rd, upd, result, writer_calls>>

SnapshotGuardKept(t) == t
\* EnsureTrainingBooster line 231: pred_guard leaves scope before the clone
SnapshotGuardReleased(t) == NoThread

\* EnsureTrainingBooster lines 230-231
EnsureSnapshot(t) ==
    /\ pc[t] = "u_ens_load"
    /\ upd' = [upd EXCEPT ![t].snapshot = active_booster]
    /\ predict_lock' = SnapshotGuardReleased(t)
    /\ Goto(t, "u_clone")
    /\ UNCHANGED <<outside, config, model, train_lock, rd, result, writer_calls>>

\* EnsureTrainingBooster lines 232-234 with CloneBooster lines 196-220, and
\* UpdateIncremental lines 458-461 (no shadow: return)
EnsureClone(t) ==
    /\ pc[t] = "u_clone"
    /\ training_num_trees' = ShadowStartTrees
    /\ training_total_updates' = total_updates
    /\ \E clone_ok \in BOOLEAN :
          IF upd[t].snapshot = Null \/ ~clone_ok
          THEN /\ UNCHANGED <<training_booster, heap>>
               /\ train_lock' = NoThread
               /\ Goto(t, "u_done")
          ELSE /\ training_booster' = NewHandle
               /\ Alloc(btrees[upd[t].snapshot])
               /\ UNCHANGED train_lock
               /\ Goto(t, "u_train")
    /\ UNCHANGED <<outside, config, initialized, active_booster, counters,
                   training_update_calls, passed, predict_lock, rd, upd, result,
                   writer_calls>>

IterationOfLoopOnly(updates, i) == i
\* line 473: the iteration number handed to XGBoosterUpdateOneIter
Iteration(updates, i) == updates * trees_per_update + i

\* lines 463-491: the tree-update loop on the shadow and the shadow counters.
\* k iterations succeed; the loop stops at the first XGBoosterUpdateOneIter
\* that fails, or after trees_to_add iterations.
UpdateTrain(t) ==
    /\ pc[t] = "u_train"
    /\ LET cur == training_num_trees
           budget == cur >= max_total_trees
           trees_to_add == IF budget THEN 0 ELSE TreesToAdd(cur)
       IN \E k \in 0..trees_to_add :
             LET failed == k < trees_to_add
                 new_total == training_total_updates + (IF k > 0 THEN 1 ELSE 0)
             IN /\ btrees' = [btrees EXCEPT ![training_booster] = @ + k]
                /\ training_num_trees' = cur + k
                /\ training_total_updates' = new_total
                /\ training_update_calls' = training_update_calls + 1
                /\ passed' = passed \cup
                      {[call |-> training_update_calls + 1, i |-> i,
                        iteration |-> Iteration(training_total_updates, i),
                        ok |-> i < k] :
                          i \in 0..((IF failed THEN k + 1 ELSE k) - 1)}
                /\ upd' = [upd EXCEPT ![t].new_num_trees = cur + k,
                                      ![t].new_total_updates = new_total,
                                      ![t].trees_added = k,
                                      ![t].reached_tree_budget = budget,
                                      ![t].base = cur,
                                      ![t].base_updates = training_total_updates,
                                      ![t].iters = IF failed THEN k + 1 ELSE k,
                                      ![t].ok_iters = k,
                                      ![t].trained = TRUE]
    /\ IF SwapDue(training_update_calls')
       THEN Goto(t, "u_swap_lock")
       ELSE Goto(t, "u_unlock")
    /\ UNCHANGED <<outside, config, initialized, active_booster, counters, training_booster,
                   live, locks, rd, result, writer_calls>>

\* line 496
SwapLock(t) ==
    /\ pc[t] = "u_swap_lock"
    /\ predict_lock = NoThread
    /\ predict_lock' = t
    /\ Goto(t, "u_swap_b")
    /\ UNCHANGED <<outside, config, model, train_lock, rd, upd, result, writer_calls>>

\* lines 497-498
SwapBooster(t) ==
    /\ pc[t] = "u_swap_b"
    /\ upd' = [upd EXCEPT ![t].old_active = active_booster]
    /\ active_booster' = training_booster
    /\ Goto(t, "u_swap_n")
    /\ UNCHANGED <<outside, config, initialized, counters, shadow, heap, locks, rd, result,
                   writer_calls>>

\* line 499
SwapTrees(t) ==
    /\ pc[t] = "u_swap_n"
    /\ num_trees' = PublishedTrees
    /\ Goto(t, "u_swap_u")
    /\ UNCHANGED <<outside, config, initialized, active_booster, total_updates, shadow, heap,
                   locks, rd, upd, result, writer_calls>>

\* lines 500-506
SwapFinish(t) ==
    /\ pc[t] = "u_swap_u"
    /\ total_updates' = training_total_updates
    /\ training_booster' = Null
    /\ live' = FreeSet({upd[t].old_active})
    /\ predict_lock' = NoThread
    /\ upd' = [upd EXCEPT ![t].swapped = TRUE]
    /\ Goto(t, "u_unlock")
    /\ UNCHANGED <<outside, config, initialized, active_booster, num_trees,
                   training_num_trees, training_total_updates, training_update_calls,
                   passed, btrees, train_lock, rd, result, writer_calls>>

LoggedOnSwap(u) == IF u.swapped THEN 1 ELSE 0
\* lines 523-527: the Printer::Print every call that got here makes
Logged(u) == 1

\* line 507 (train_guard leaves scope), then lines 509-528
UpdateUnlock(t) ==
    /\ pc[t] = "u_unlock"
    /\ train_lock' = NoThread
    /\ upd' = [upd EXCEPT ![t].log_lines = @ + Logged(upd[t])]
    /\ Goto(t, "u_done")
    /\ UNCHANGED <<outside, config, model, predict_lock, rd, result, writer_calls>>

\* ---------------------------------------------------------- ResetModel
Holder(l) == IF l = "train" THEN train_lock ELSE predict_lock
Acquire(t, l) ==
    /\ Holder(l) = NoThread
    /\ IF l = "train"
       THEN train_lock' = t /\ UNCHANGED predict_lock
       ELSE predict_lock' = t /\ UNCHANGED train_lock

ResetEntry(t) ==
    /\ pc[t] = "idle"
    /\ writer_calls < call_budget
    /\ writer_calls' = writer_calls + 1
    /\ Goto(t, "r_lock1")
    /\ UNCHANGED <<outside, config, model, locks, rd, upd, result>>

\* line 532
ResetLockFirst(t) ==
    /\ pc[t] = "r_lock1"
    /\ Acquire(t, ResetLockOrder[1])
    /\ Goto(t, "r_lock2")
    /\ UNCHANGED <<outside, config, model, rd, upd, result, writer_calls>>

\* line 533
ResetLockSecond(t) ==
    /\ pc[t] = "r_lock2"
    /\ Acquire(t, ResetLockOrder[2])
    /\ Goto(t, "r_free")
    /\ UNCHANGED <<outside, config, model, rd, upd, result, writer_calls>>

\* lines 534-542
ResetFree(t) ==
    /\ pc[t] = "r_free"
    /\ live' = FreeSet({active_booster, training_booster})
    /\ active_booster' = Null
    /\ training_booster' = Null
    /\ Goto(t, "r_zero_n")
    /\ UNCHANGED <<outside, config, initialized, counters, training_num_trees,
                   training_total_updates, training_update_calls, passed, btrees, locks,
                   rd, upd, result, writer_calls>>

\* line 544
ResetZeroTrees(t) ==
    /\ pc[t] = "r_zero_n"
    /\ num_trees' = 0
    /\ Goto(t, "r_zero_u")
    /\ UNCHANGED <<outside, config, initialized, active_booster, total_updates, shadow, heap,
                   locks, rd, upd, result, writer_calls>>

\* lines 545-549
ResetZeroRest(t) ==
    /\ pc[t] = "r_zero_u"
    /\ total_updates' = 0
    /\ training_num_trees' = 0
    /\ training_total_updates' = 0
    /\ training_update_calls' = 0
    /\ passed' = {}
    /\ initialized' = FALSE
    /\ Goto(t, "r_init_n")
    /\ UNCHANGED <<outside, config, active_booster, num_trees, training_booster, heap, locks,
                   rd, upd, result, writer_calls>>

\* InitializeBooster lines 123-182, called at line 553: when the library fails
\* it returns with nothing stored
InitializeCounters(t) ==
    /\ pc[t] = "r_init_n"
    /\ \E init_ok \in BOOLEAN :
          IF init_ok
          THEN /\ num_trees' = BootstrapTrees
               /\ total_updates' = 0
               /\ Goto(t, "r_init_b")
          ELSE /\ UNCHANGED counters
               /\ Goto(t, "r_finish")
    /\ UNCHANGED <<outside, config, initialized, active_booster, shadow, heap, locks, rd, upd,
                   result, writer_calls>>

\* InitializeBooster lines 183-193
InitializeBooster(t) ==
    /\ pc[t] = "r_init_b"
    /\ active_booster' = NewHandle
    /\ btrees' = Append(btrees, 1)
    /\ live' = FreeSet({training_booster}) \cup {NewHandle}
    /\ training_booster' = Null
    /\ training_num_trees' = 0
    /\ training_total_updates' = 0
    /\ training_update_calls' = 0
    /\ passed' = {}
    /\ Goto(t, "r_finish")
    /\ UNCHANGED <<outside, config, initialized, counters, locks, rd, upd, result,
                   writer_calls>>

\* lines 554-557: initialized = true, both guards leave scope
ResetFinish(t) ==
    /\ pc[t] = "r_finish"
    /\ initialized' = TRUE
    /\ predict_lock' = NoThread
    /\ train_lock' = NoThread
    /\ Goto(t, "r_done")
    /\ UNCHANGED <<outside, config, active_booster, counters, shadow, heap, rd, upd, result,
                   writer_calls>>

\* ------------------------------------------------------------------ Next
Step(t) ==
    \/ PredictEntry(t) \/ PredictLoadBooster(t) \/ PredictLoadTrees(t)
    \/ PredictCheck(t) \/ PredictLock(t) \/ PredictInfer(t)
    \/ BatchEntry(t) \/ BatchLoadBooster(t) \/ BatchLoadTrees(t)
    \/ BatchCheck(t) \/ BatchLock(t) \/ BatchInfer(t)
    \/ IsReadyCall(t) \/ GetNumTreesCall(t) \/ Return(t)
    \/ UpdateEntry(t) \/ UpdateLockTrain(t) \/ EnsureLockPredict(t)
    \/ EnsureSnapshot(t) \/ EnsureClone(t) \/ UpdateTrain(t)
    \/ SwapLock(t) \/ SwapBooster(t) \/ SwapTrees(t) \/ SwapFinish(t)
    \/ UpdateUnlock(t)
    \/ ResetEntry(t) \/ ResetLockFirst(t) \/ ResetLockSecond(t) \/ ResetFree(t)
    \/ ResetZeroTrees(t) \/ ResetZeroRest(t) \/ InitializeCounters(t)
    \/ InitializeBooster(t) \/ ResetFinish(t)

Next == \E t \in Threads : Step(t)

Spec == Init /\ [][Next]_vars

\* ------------------------------------------------- RLModelInterface
\* The thread-locals of one thread.  The limits 300 and 5000 of the code are the
\* variables physical_cap and cache_limit, which Init draws from small ranges.
Keys == 1..MaxKeys
Estimates == {7}           \* features.estimated_cardinality
Predictions == {0, 3}      \* RLBoostingModel::Predict: the 0 sentinel or a cardinality
TreeCounts == {1, 2}       \* RLBoostingModel::GetNumTrees

\* a model that is constructed and left alone
BoosterIdle ==
    /\ max_total_trees = 0 /\ trees_per_update = 0 /\ swap_every = 0
    /\ call_budget = 0
    /\ Constructed /\ active_booster # Null

InitInterface ==
    /\ BoosterIdle
    /\ CollectorEmpty(0)
    /\ BeyondIdle
    /\ \E cap \in 1..MaxPhysicalCap, limit \in 1..MaxCacheLimit :
          InterfaceFresh(cap, limit)

\* map[k] = v
Put(map, k, v) == [x \in DOMAIN map \cup {k} |-> IF x = k THEN v ELSE map[x]]
Size(map) == Cardinality(DOMAIN map)

\* line 578
QueryChangedIgnoresInvalid ==
    cached_query_id # query_id /\ cached_query_id # INVALID_INDEX
QueryChanged == cached_query_id # query_id

\* line 595
CapReachedOffByOne(count) == count > physical_cap
CapReached(count) == count >= physical_cap

\* line 115
CacheFullOffByOne(map) == Size(map) > cache_limit + 1
CacheFull(map) == Size(map) > cache_limit

\* the context starts a query: GetActiveQuery returns a number never seen before
BeginQuery ==
    /\ epoch < MaxQueries
    /\ epoch' = epoch + 1
    /\ query_id' = epoch + 1
    /\ answer' = NoAnswer
    /\ UNCHANGED <<booster, collector, beyond, physical_prediction_cache, cached_query_id,
                   physical_prediction_count, physical_cap_logged, prediction_cache,
                   physical_cap, cache_limit>>

\* ResetPredictionCachesForThread, as the specification describes it: the
\* physical-side cache and the per-query counter start afresh
ResetPredictionCachesForThread ==
    /\ epoch < MaxQueries
    /\ epoch' = epoch + 1
    /\ physical_prediction_cache' = EmptyMap
    /\ physical_prediction_count' = 0
    /\ answer' = NoAnswer
    /\ UNCHANGED <<booster, collector, beyond, cached_query_id, physical_cap_logged,
                   prediction_cache, query_id, physical_cap, cache_limit>>

\* lines 559-666 (enabled is set by the constructor and never cleared).  cache
\* and count are the thread-locals after the query check of lines 578-583.
\* answer.cached is the value the cache of this query holds for the call's
\* fingerprint, 0 when it holds none; the fingerprint of an operator that is not
\* a join (lines 611-644) is never that of a cached join.
GetCardinalityEstimate ==
    \E is_join \in BOOLEAN, key \in Keys, est \in Estimates, pred \in Predictions :
       LET cache == IF QueryChanged THEN EmptyMap ELSE physical_prediction_cache
           count == IF QueryChanged THEN 0 ELSE physical_prediction_count
           logged == IF QueryChanged THEN FALSE ELSE physical_cap_logged
           Answer(kind, value, asked) ==
              [kind |-> kind, value |-> value, est |-> est, asked |-> asked,
               before |-> count,
               epoch |-> IF kind = "hit" THEN cache[key].epoch ELSE epoch,
               asks |-> answer.asks + (IF asked THEN 1 ELSE 0),
               was_cached |-> key \in DOMAIN physical_prediction_cache,
               cleared |-> FALSE,
               cached |-> IF is_join /\ key \in DOMAIN cache
                          THEN cache[key].value ELSE 0]
           Keep(kind, value) ==
              /\ physical_prediction_cache' = cache
              /\ physical_prediction_count' = count
              /\ answer' = Answer(kind, value, kind = "engine")
       IN /\ cached_query_id' = query_id
          /\ IF ~is_join
             THEN Keep("nonjoin", est) /\ physical_cap_logged' = logged
             ELSE IF CapReached(count)
             THEN Keep("capped", est) /\ physical_cap_logged' = TRUE
             ELSE IF key \in DOMAIN cache
             THEN Keep("hit", cache[key].value) /\ physical_cap_logged' = logged
             ELSE /\ physical_cap_logged' = logged
                  /\ answer.asks < MaxAsks
                  /\ IF pred <= 0
                     THEN Keep("engine", est)
                     ELSE /\ physical_prediction_cache'
                               = Put(cache, key, [value |-> pred, epoch |-> epoch])
                          /\ physical_prediction_count' = count + 1
                          /\ answer' = Answer("model", pred, TRUE)
          /\ UNCHANGED <<booster, collector, beyond, prediction_cache, query_id, epoch,
                         physical_cap, cache_limit>>

\* lines 41-121: the predictor callback registered with the collector
PredictorCallback ==
    \E key \in Keys, trees \in TreeCounts, pred \in Predictions :
       /\ IF trees < 2
          THEN /\ answer' = [NoAnswer EXCEPT !.kind = "cold"]
               /\ UNCHANGED prediction_cache
          ELSE IF key \in DOMAIN prediction_cache
          THEN /\ answer' = [NoAnswer EXCEPT !.kind = "planhit",
                                             !.value = prediction_cache[key].value,
                                             !.epoch = prediction_cache[key].epoch]
               /\ UNCHANGED prediction_cache
          ELSE /\ answer' = [NoAnswer EXCEPT !.kind = "plan", !.value = pred,
                                             !.asked = TRUE, !.epoch = epoch,
                                             !.cleared = CacheFull(prediction_cache)]
               /\ prediction_cache'
                    = Put(IF CacheFull(prediction_cache) THEN EmptyMap
                                                        ELSE prediction_cache,
                          key, [value |-> pred, epoch |-> epoch])
       /\ UNCHANGED <<booster, collector, beyond, physical_prediction_cache, cached_query_id,
                      physical_prediction_count, physical_cap_logged, query_id, epoch,
                      physical_cap, cache_limit>>

NextInterface ==
    \/ BeginQuery \/ ResetPredictionCachesForThread
    \/ GetCardinalityEstimate \/ PredictorCallback

SpecInterface == InitInterface /\ [][NextInterface]_vars

\* ------------------------------------------------ RLFeatureCollector
\* Every method runs under the collector's mutex, so each is one step.  The
\* limit 500 of the code is the variable size_limit.  A feature record is
\* modelled by a number; for JoinFeatures it is the integral
\* estimated_cardinality, which is all the collector reads of it.
Features == {1, 2}
JoinFeatures == 0..MaxEstimate

\* lines 22, 31, 43, 57: map.size() > 500
OverflowOffByOne(map) == Size(map) > size_limit + 1
Overflow(map) == Size(map) > size_limit

\* lines 22-25 (and 31-34, 57-60): clear on overflow, then map[op] = features
AddTo(map, k, v) == Put(IF Overflow(map) THEN EmptyMap ELSE map, k, v)

\* lines 43-51 without the clear of line 45
AddRelKeepsEstimates(rel, by_est, k, f) ==
    <<Put(IF Overflow(rel) THEN EmptyMap ELSE rel, k, f),
      IF f > 0 THEN Put(by_est, f, f) ELSE by_est>>

\* lines 43-51: the relation-set map and the by-estimate map after the call
AddRel(rel, by_est, k, f) ==
    LET full == Overflow(rel)
        est == IF full THEN EmptyMap ELSE by_est
    IN <<Put(IF full THEN EmptyMap ELSE rel, k, f),
         IF f > 0 THEN Put(est, f, f) ELSE est>>

Counted(map) ==
    /\ inserts' = inserts + 1
    /\ clears' = clears + (IF Overflow(map) THEN 1 ELSE 0)
    /\ UNCHANGED <<booster, interface, beyond, size_limit>>

\* lines 19-26
AddTableScanFeatures ==
    /\ inserts < MaxAdds
    /\ \E op \in Keys, features \in Features :
          table_scan_features' = AddTo(table_scan_features, op, features)
    /\ Counted(table_scan_features)
    /\ UNCHANGED <<join_features, join_features_by_relation_set,
                   join_features_by_estimate, filter_features>>

\* lines 28-35
AddJoinFeatures ==
    /\ inserts < MaxAdds
    /\ \E op \in Keys, features \in JoinFeatures :
          join_features' = AddTo(join_features, op, features)
    /\ Counted(join_features)
    /\ UNCHANGED <<table_scan_features, join_features_by_relation_set,
                   join_features_by_estimate, filter_features>>

\* lines 37-52
AddJoinFeaturesByRelationSet ==
    /\ inserts < MaxAdds
    /\ \E relation_set \in Keys, features \in JoinFeatures :
          LET after == AddRel(join_features_by_relation_set,
                              join_features_by_estimate, relation_set, features)
          IN /\ join_features_by_relation_set' = after[1]
             /\ join_features_by_estimate' = after[2]
    /\ Counted(join_features_by_relation_set)
    /\ UNCHANGED <<table_scan_features, join_features, filter_features>>

\* lines 54-61
AddFilterFeatures ==
    /\ inserts < MaxAdds
    /\ \E op \in Keys, features \in Features :
          filter_features' = AddTo(filter_features, op, features)
    /\ Counted(filter_features)
    /\ UNCHANGED <<table_scan_features, join_features,
                   join_features_by_relation_set, join_features_by_estimate>>

\* lines 111-120
Clear ==
    /\ table_scan_features' = EmptyMap
    /\ join_features' = EmptyMap
    /\ join_features_by_relation_set' = EmptyMap
    /\ join_features_by_estimate' = EmptyMap
    /\ filter_features' = EmptyMap
    /\ UNCHANGED <<booster, interface, beyond, size_limit, clears, inserts>>

InitCollector ==
    /\ BoosterIdle
    /\ InterfaceFresh(0, 0)
    /\ BeyondIdle
    /\ \E limit \in 1..MaxCollectorLimit : CollectorEmpty(limit)

NextCollector ==
    \/ AddTableScanFeatures \/ AddJoinFeatures \/ AddJoinFeaturesByRelationSet
    \/ AddFilterFeatures \/ Clear

SpecCollector == InitCollector /\ [][NextCollector]_vars

\* ------------------------------- ExtractFeatures against the collector
\* ExtractFeatures runs on one thread while other threads call the mutators of
\* the collector singleton.  Each Get* holds the collector mutex for its find and
\* returns a pointer to the map entry; ExtractFeatures reads through the pointer
\* after the mutex is released.
MapOf(name) ==
    CASE name = "table_scan" -> table_scan_features
      [] name = "join" -> join_features
      [] name = "by_estimate" -> join_features_by_estimate
      [] name = "filter" -> filter_features

\* find(key) under the lock: &it->second or nullptr
Find(name, key) ==
    LET map == MapOf(name)
        found == key \in DOMAIN map
    IN [stage |-> IF found THEN "held" ELSE IF name = "join" THEN "retry"
                  ELSE "returned",
        map |-> name, key |-> key, found |-> found,
        entry |-> IF found THEN map[key] ELSE 0,
        copied |-> 0, dangling |-> FALSE]

\* rl_feature_collector.cpp lines 63-70, called at rl_model_interface.cpp line 287
GetTableScanFeatures ==
    /\ extract.stage = "idle"
    /\ \E op \in Keys : extract' = Find("table_scan", op)
    /\ UNCHANGED <<booster, interface, collector, training, planning, tracker,
                   vectoring>>

\* lines 72-79, called at rl_model_interface.cpp line 327
GetJoinFeatures ==
    /\ extract.stage = "idle"
    /\ \E op \in Keys : extract' = Find("join", op)
    /\ UNCHANGED <<booster, interface, collector, training, planning, tracker,
                   vectoring>>

\* lines 93-100, called at rl_model_interface.cpp lines 328-331 when the lookup by
\* operator found nothing and op.estimated_cardinality > 0
GetJoinFeaturesByEstimate ==
    /\ extract.stage = "retry"
    /\ \E estimated_cardinality \in 0..MaxEstimate :
          extract' = IF estimated_cardinality > 0
                     THEN Find("by_estimate", estimated_cardinality)
                     ELSE [extract EXCEPT !.stage = "returned"]
    /\ UNCHANGED <<booster, interface, collector, training, planning, tracker,
                   vectoring>>

\* lines 102-109, called at rl_model_interface.cpp line 315
GetFilterFeatures ==
    /\ extract.stage = "idle"
    /\ \E op \in Keys : extract' = Find("filter", op)
    /\ UNCHANGED <<booster, interface, collector, training, planning, tracker,
                   vectoring>>

\* the entry the pointer was taken of is still in its map, as it was
Intact(e) ==
    /\ e.key \in DOMAIN MapOf(e.map)
    /\ MapOf(e.map)[e.key] = e.entry

\* rl_model_interface.cpp lines 288-300, 316-318, 332-345: the fields are copied
\* out through the pointer, without the collector mutex.  When the entry was
\* erased or assigned to since the lookup the read is undefined: it may yield the
\* old entry, the new one or anything else.
ExtractFeaturesCopy ==
    /\ extract.stage = "held"
    /\ IF Intact(extract)
       THEN extract' = [extract EXCEPT !.stage = "returned", !.copied = extract.entry]
       ELSE \E garbage \in JoinFeatures \cup Features :
               extract' = [extract EXCEPT !.stage = "returned", !.copied = garbage,
                                          !.dangling = TRUE]
    /\ UNCHANGED <<booster, interface, collector, training, planning, tracker,
                   vectoring>>

\* lines 364: return features
ExtractFeaturesReturn ==
    /\ extract.stage = "returned"
    /\ extract' = NoLookup
    /\ UNCHANGED <<booster, interface, collector, training, planning, tracker,
                   vectoring>>

InitExtract == InitCollector

NextExtract ==
    \/ GetTableScanFeatures \/ GetJoinFeatures \/ GetJoinFeaturesByEstimate
    \/ GetFilterFeatures \/ ExtractFeaturesCopy \/ ExtractFeaturesReturn
    \/ (inserts < MaxConcurrentAdds /\ AddTableScanFeatures)
    \/ (inserts < MaxConcurrentAdds /\ AddJoinFeatures)
    \/ (inserts < MaxConcurrentAdds /\ AddJoinFeaturesByRelationSet)
    \/ (inserts < MaxConcurrentAdds /\ AddFilterFeatures)
    \/ Clear

SpecExtract == InitExtract /\ [][NextExtract]_vars

\* The overflow scenario: the collector with its real limit, into which
\* AddJoinFeaturesByRelationSet inserts one new fingerprint after the other.
InitOverflow ==
    /\ BoosterIdle
    /\ InterfaceFresh(0, 0)
    /\ BeyondIdle
    /\ CollectorEmpty(COLLECTOR_LIMIT)

AddDistinctRelationSet ==
    /\ inserts < OverflowScenarioAdds
    /\ \E features \in {0} :
          LET after == AddRel(join_features_by_relation_set,
                              join_features_by_estimate, inserts + 1, features)
          IN /\ join_features_by_relation_set' = after[1]
             /\ join_features_by_estimate' = after[2]
    /\ Counted(join_features_by_relation_set)
    /\ UNCHANGED <<table_scan_features, join_features, filter_features>>

NextOverflow == AddDistinctRelationSet

SpecOverflow == InitOverflow /\ [][NextOverflow]_vars

\* ------------------------------------------- RLTrainingBuffer, the Q-error
Cards == 0..MaxCard
Max2(x, y) == IF x >= y THEN x ELSE y
Min2(x, y) == IF x <= y THEN x ELSE y

\* a quotient of two cardinalities as <<numerator, denominator>>, the
\* denominator positive
AtLeast(q, r) == q[1] * r[2] >= r[1] * q[2]

\* lines 752-755 with std::min for std::max
QErrorMin(actual, predicted) ==
    LET under == <<actual, Max2(predicted, 1)>>
        over == <<predicted, Max2(actual, 1)>>
    IN IF AtLeast(under, over) THEN over ELSE under

\* lines 752-755: std::max(actual / (double)max(predicted, 1),
\*                         predicted / (double)max(actual, 1))
QError(actual, predicted) ==
    LET under == <<actual, Max2(predicted, 1)>>
        over == <<predicted, Max2(actual, 1)>>
    IN IF AtLeast(under, over) THEN under ELSE over

Sample(features, actual, predicted) ==
    [features |-> features, actual_cardinality |-> actual,
     predicted_cardinality |-> predicted, q_error |-> QError(actual, predicted)]

\* a ring that refuses the new sample when full
AddSampleDropsNewest(buf, features, actual, predicted) ==
    IF Len(buf) >= capacity THEN buf
    ELSE Append(buf, Sample(features, actual, predicted))

\* RLTrainingBuffer::AddSample: push, dropping the oldest sample of a full ring
AddSample(buf, features, actual, predicted) ==
    Append(IF Len(buf) >= capacity THEN Tail(buf) ELSE buf,
           Sample(features, actual, predicted))

\* RLTrainingBuffer::GetRecentSamples: a copy of the last min(k, size) samples
GetRecentSamples(buf, k) ==
    SubSeq(buf, Len(buf) - Min2(k, Len(buf)) + 1, Len(buf))

\* buffer.AddSample(...) called on the process-wide buffer
AddSampleCall ==
    /\ Len(pushed) < MaxPushes
    /\ \E actual \in Cards, predicted \in Cards :
          /\ buffer' = AddSample(buffer, 1, actual, predicted)
          /\ pushed' = Append(pushed, Sample(1, actual, predicted))
    /\ UNCHANGED <<booster, interface, collector, vectoring, extracting, planning, tracker, physical, parent,
                   root_is_collector, phase, stack, visits, emitted, capacity,
                   recent, trained>>

\* buffer.GetRecentSamples(k)
GetRecentSamplesCall ==
    /\ \E k \in 0..(MaxCapacity + 1) :
          recent' = [k |-> k, size |-> Len(buffer), upto |-> Len(pushed),
                     samples |-> GetRecentSamples(buffer, k)]
    /\ UNCHANGED <<booster, interface, collector, vectoring, extracting, planning, tracker, physical, parent,
                   root_is_collector, phase, stack, visits, emitted, buffer,
                   capacity, pushed, trained>>

\* buffer.Clear()
ClearBuffer ==
    /\ buffer' = <<>>
    /\ UNCHANGED <<booster, interface, collector, vectoring, extracting, planning, tracker, physical, parent,
                   root_is_collector, phase, stack, visits, emitted, capacity,
                   pushed, recent, trained>>

InitBuffer ==
    /\ BoosterIdle
    /\ InterfaceFresh(0, 0)
    /\ CollectorEmpty(0)
    /\ PlanningIdle
    /\ TrackerFresh
    /\ VectorIdle
    /\ ExtractIdle
    /\ NoPlan
    /\ NoTree
    /\ phase = "idle"
    /\ \E c \in 1..MaxCapacity : BufferEmpty(c)

NextBuffer == AddSampleCall \/ GetRecentSamplesCall \/ ClearBuffer

SpecBuffer == InitBuffer /\ [][NextBuffer]_vars

\* ------------------------------- AttachRLState, CollectActualCardinalities
\* RLOperatorState as AttachRLState constructs it (line 679)
RLOperatorState(feature_vec, rl_prediction, duckdb_estimate) ==
    [attached |-> TRUE, feature_vector |-> feature_vec,
     rl_predicted_cardinality |-> rl_prediction,
     duckdb_estimated_cardinality |-> duckdb_estimate,
     actual_cardinality |-> 0,
     has_rl_prediction |-> TRUE, has_actual_cardinality |-> FALSE]

\* op.children in order
RECURSIVE ChildrenFrom(_, _)
ChildrenFrom(o, c) ==
    IF c > MaxOps THEN <<>>
    ELSE (IF parent[c] = o THEN <<c>> ELSE <<>>) \o ChildrenFrom(o, c + 1)
Children(o) == ChildrenFrom(o, o + 1)

\* lines 691-696: the plan under a RESULT_COLLECTOR root, else the root
ActualRoot == IF root_is_collector THEN 2 ELSE 1
PlanOps == IF root_is_collector THEN Ops \ {1} ELSE Ops

\* lines 671-680, called by the execution hook on the operator it has just made
AttachRLState ==
    /\ phase = "running"
    /\ \E o \in PlanOps, rl_prediction \in Cards, duckdb_estimate \in Estimates :
          /\ ~physical[o].attached
          /\ physical' = [physical EXCEPT
                ![o] = RLOperatorState(o, rl_prediction, duckdb_estimate)]
    /\ UNCHANGED <<booster, interface, collector, vectoring, extracting, planning, tracker, parent, root_is_collector, phase,
                   stack, visits, emitted, buffer, capacity, pushed, recent,
                   trained>>

\* RLOperatorState::AddRows during execution: an atomic add
AddRows ==
    /\ phase = "running"
    /\ \E o \in PlanOps :
          /\ physical[o].attached
          /\ physical[o].actual_cardinality < MaxCard
          /\ physical' = [physical EXCEPT ![o].actual_cardinality = @ + 1]
    /\ UNCHANGED <<booster, interface, collector, vectoring, extracting, planning, tracker, parent, root_is_collector, phase,
                   stack, visits, emitted, buffer, capacity, pushed, recent,
                   trained>>

\* lines 683-699: CollectActualCardinalities up to the recursive call
CollectBegin ==
    /\ phase = "running"
    /\ phase' = "collecting"
    /\ stack' = <<ActualRoot>>
    /\ UNCHANGED <<booster, interface, collector, vectoring, extracting, planning, tracker, physical, parent,
                   root_is_collector, visits, emitted, buffer, capacity, pushed,
                   recent, trained>>

\* line 726
WorthASampleBothNeeded(actual, predicted) == actual > 0 /\ predicted > 0
WorthASample(actual, predicted) == actual > 0 \/ predicted > 0

\* lines 717-780: one activation of CollectActualCardinalitiesRecursive, which
\* handles the operator and then enters its children in order
CollectActualCardinalitiesRecursive ==
    /\ phase = "collecting" /\ stack # <<>>
    /\ LET op == Head(stack)
           rl_state == physical[op]
           actual_cardinality == rl_state.actual_cardinality
           emits == /\ rl_state.attached /\ rl_state.has_rl_prediction
                    /\ WorthASample(actual_cardinality,
                                    rl_state.rl_predicted_cardinality)
       IN /\ physical' = IF emits
                         THEN [physical EXCEPT ![op].has_actual_cardinality = TRUE]
                         ELSE physical
          /\ buffer' = IF emits
                       THEN AddSample(buffer, rl_state.feature_vector,
                                      actual_cardinality,
                                      rl_state.rl_predicted_cardinality)
                       ELSE buffer
          /\ pushed' = IF emits
                       THEN Append(pushed, Sample(rl_state.feature_vector,
                                                  actual_cardinality,
                                                  rl_state.rl_predicted_cardinality))
                       ELSE pushed
          /\ emitted' = [emitted EXCEPT ![op] = @ + (IF emits THEN 1 ELSE 0)]
          /\ visits' = [visits EXCEPT ![op] = @ + 1]
          /\ stack' = Children(op) \o Tail(stack)
    /\ UNCHANGED <<booster, interface, collector, vectoring, extracting, planning, tracker, parent, root_is_collector, phase,
                   capacity, recent, trained>>

\* lines 701-712: the walk has returned; take the window and train on it
CollectEnd ==
    /\ phase = "collecting" /\ stack = <<>>
    /\ phase' = "collected"
    /\ LET recent_samples == GetRecentSamples(buffer, TRAINING_WINDOW)
       IN /\ recent' = [k |-> TRAINING_WINDOW, size |-> Len(buffer),
                        upto |-> Len(pushed), samples |-> recent_samples]
          /\ trained' = ~TooFewSamples(Len(recent_samples))
    /\ UNCHANGED <<booster, interface, collector, vectoring, extracting, planning, tracker, physical, parent,
                   root_is_collector, stack, visits, emitted, buffer, capacity,
                   pushed>>

\* a plan of MaxOps operators: operator 1 is the root, every other operator the
\* child of an earlier one; under a RESULT_COLLECTOR root the plan is operator 2
Shapes ==
    {f \in [Ops -> 0..MaxOps] :
        /\ f[1] = 0
        /\ \A o \in Ops \ {1} : f[o] >= 1 /\ f[o] < o}

InitCollect ==
    /\ BoosterIdle
    /\ InterfaceFresh(0, 0)
    /\ CollectorEmpty(0)
    /\ PlanningIdle
    /\ TrackerFresh
    /\ VectorIdle
    /\ ExtractIdle
    /\ NoPlan
    /\ root_is_collector \in BOOLEAN
    /\ parent \in {f \in Shapes :
                      root_is_collector => \A o \in Ops \ {1, 2} : f[o] >= 2}
    /\ phase = "running"
    /\ \E c \in 1..MaxCapacity : BufferEmpty(c)

NextCollect ==
    \/ AttachRLState \/ AddRows \/ CollectBegin
    \/ CollectActualCardinalitiesRecursive \/ CollectEnd

SpecCollect == InitCollect /\ [][NextCollect]_vars

\* CollectActualCardinalities called on a plan it has walked before (a plan that
\* is executed again, or a caller that collects twice): lines 683-699 once more
CollectAgain ==
    /\ phase = "collected"
    /\ visits[ActualRoot] < MaxWalks
    /\ phase' = "collecting"
    /\ stack' = <<ActualRoot>>
    /\ UNCHANGED <<booster, interface, collector, vectoring, extracting, planning, tracker, physical, parent,
                   root_is_collector, visits, emitted, buffer, capacity, pushed,
                   recent, trained>>

NextRecollect == NextCollect \/ CollectAgain

SpecRecollect == InitCollect /\ [][NextRecollect]_vars

\* ----------------------------------------- optimizer hook, execution hook
EngineEstimates == {0} \cup Estimates
Kinds == {"FILTER", "TOP_N", "COMPARISON_JOIN"}

\* part_004 line 42 without the floor
FlooredNot(effective) == effective
\* part_004 line 42: MaxValue<idx_t>(effective, 1)
Floored(effective) == Max2(effective, 1)

\* part_004 line 26
ShouldPreserve(op) ==
    ~op.has_duckdb_estimated_cardinality /\ op.has_estimated_cardinality

\* part_004 lines 24-44; rl_pred is what PredictPlanningCardinality returns and
\* features.estimated_cardinality is op.estimated_cardinality
\* (rl_model_interface.cpp line 270)
ApplyToOperator ==
    /\ ~made.built
    /\ hook.visits < MaxVisits
    /\ \E rl_pred \in Predictions :
          LET preserved ==
                 IF ShouldPreserve(logical)
                 THEN [logical EXCEPT
                         !.duckdb_estimated_cardinality = logical.estimated_cardinality,
                         !.has_duckdb_estimated_cardinality = TRUE]
                 ELSE logical
              fallback == preserved.estimated_cardinality
              effective == IF rl_pred > 0 THEN rl_pred ELSE fallback
          IN /\ logical' = [preserved EXCEPT
                               !.estimated_cardinality = Floored(effective),
                               !.has_estimated_cardinality = TRUE]
             /\ hook' = [visits |-> hook.visits + 1, rl_pred |-> rl_pred,
                         before |-> logical.estimated_cardinality,
                         had_estimate |-> logical.has_estimated_cardinality,
                         predictions |-> (hook.predictions \cup {rl_pred}) \ {0}]
    /\ UNCHANGED <<booster, interface, collector, vectoring, extracting, training, tracker, engine, made>>

\* RLModelInterface::PredictCardinality as the hooks see it: the model's
\* prediction, 0 while the model is not ready
PredictCardinality(ready, prediction) == IF ready THEN prediction ELSE 0

\* part_001 lines 35-36, plan_top_n.cpp lines 16-17 and 54-55
OriginalDuckdbEstimate(op) ==
    IF op.has_duckdb_estimated_cardinality THEN op.duckdb_estimated_cardinality
    ELSE op.estimated_cardinality

\* part_001 line 38 with the fallback left out
RlPredictionRaw(rl_raw_prediction, original_duckdb_estimate) == rl_raw_prediction
\* part_001 line 38, plan_top_n.cpp lines 19 and 57
RlPrediction(rl_raw_prediction, original_duckdb_estimate) ==
    IF rl_raw_prediction > 0 THEN rl_raw_prediction ELSE original_duckdb_estimate

\* the cardinality handed to Make<Physical...> if it were the prediction
BuiltCardinalityPredicted(op, rl_prediction) == rl_prediction
\* the cardinality handed to Make<Physical...>: part_001 lines 42, 70, 92, 100,
\* 107, 116; plan_top_n.cpp lines 23 and 62
BuiltCardinality(op, rl_prediction) == op.estimated_cardinality

\* the three execution hooks have this in common: predict, capture, build with
\* op.estimated_cardinality, attach
Hooked(ready, prediction) ==
    LET original_duckdb_estimate == OriginalDuckdbEstimate(logical)
        rl_raw_prediction == PredictCardinality(ready, prediction)
        rl_prediction == RlPrediction(rl_raw_prediction, original_duckdb_estimate)
    IN made' = [built |-> TRUE, kind |-> logical.kind,
                estimated_cardinality |-> BuiltCardinality(logical, rl_prediction),
                rl_state |-> RLOperatorState(1, rl_prediction, original_duckdb_estimate),
                raw |-> rl_raw_prediction,
                captured |-> original_duckdb_estimate,
                ready |-> ready]

\* part_001 lines 23-119: every branch builds its join with
\* op.estimated_cardinality and attaches the same state
PlanComparisonJoin ==
    /\ ~made.built /\ logical.kind = "COMPARISON_JOIN"
    /\ \E ready \in BOOLEAN, prediction \in Predictions : Hooked(ready, prediction)
    /\ UNCHANGED <<booster, interface, collector, vectoring, extracting, training, tracker, logical, engine, hook>>

\* plan_top_n.cpp lines 8-27
CreatePlanTopN ==
    /\ ~made.built /\ logical.kind = "TOP_N"
    /\ \E ready \in BOOLEAN, prediction \in Predictions : Hooked(ready, prediction)
    /\ UNCHANGED <<booster, interface, collector, vectoring, extracting, training, tracker, logical, engine, hook>>

\* plan_top_n.cpp lines 44-81: without expressions the child plan is returned
\* and nothing is attached
CreatePlanFilter ==
    /\ ~made.built /\ logical.kind = "FILTER"
    /\ \E ready \in BOOLEAN, prediction \in Predictions :
          IF logical.has_expressions
          THEN Hooked(ready, prediction)
          ELSE made' = [NotMade EXCEPT !.built = TRUE, !.kind = "CHILD"]
    /\ UNCHANGED <<booster, interface, collector, vectoring, extracting, training, tracker, logical, engine, hook>>

InitPlanning ==
    /\ BoosterIdle
    /\ InterfaceFresh(0, 0)
    /\ CollectorEmpty(0)
    /\ TrainingIdle
    /\ TrackerFresh
    /\ VectorIdle
    /\ ExtractIdle
    /\ \E kind \in Kinds, has_expressions \in BOOLEAN, has \in BOOLEAN,
          est \in EngineEstimates :
          /\ has_expressions \/ kind = "FILTER"
          /\ has \/ est = 0
          /\ logical = [Unestimated EXCEPT
                          !.kind = kind, !.has_expressions = has_expressions,
                          !.estimated_cardinality = est,
                          !.has_estimated_cardinality = has]
    /\ engine = logical
    /\ hook = NoHook
    /\ made = NotMade

NextPlanning ==
    \/ ApplyToOperator \/ PlanComparisonJoin \/ CreatePlanTopN \/ CreatePlanFilter

SpecPlanning == InitPlanning /\ [][NextPlanning]_vars

\* ---------------------------------------------------- RLFeatureTracker
\* StartOperator, EndOperator and Reset run on any thread.  The cache
\* validation and the scan of the thread's cache are done without the lock, each
\* is one step; what is done under the tracker's mutex is one step.
Enter(t, l, op, rows) ==
    /\ at[t] = "out"
    /\ tracker_calls < MaxTrackerCalls
    /\ tracker_calls' = tracker_calls + 1
    /\ at' = [at EXCEPT ![t] = l]
    /\ arg' = [arg EXCEPT ![t] = [op |-> op, rows |-> rows,
                                  counted |-> operator_stats[op] # Null]]

Leave(t) ==
    /\ at' = [at EXCEPT ![t] = "out"]
    /\ arg' = [arg EXCEPT ![t] = NoArg]

\* the pointer cached for op in thread t's cache, Null if there is none
RECURSIVE Lookup(_, _)
Lookup(entries, op) ==
    IF entries = <<>> THEN Null
    ELSE IF Head(entries)[1] = op THEN Head(entries)[2]
    ELSE Lookup(Tail(entries), op)
Cached(t, op) == \E i \in 1..Len(local_cache[t].entries) :
                    local_cache[t].entries[i][1] = op

\* lines 44-48 and 78-82
Invalid(t) ==
    local_cache[t].tracker_id # TRACKER_ID \/ local_cache[t].generation # generation

ValidateCache(t) ==
    local_cache' = IF Invalid(t)
                   THEN [local_cache EXCEPT
                           ![t] = [tracker_id |-> TRACKER_ID,
                                   generation |-> generation, entries |-> <<>>]]
                   ELSE local_cache

\* lines 67 and 98: cache the pointer unless the cache is full
Remember(t, op, ptr) ==
    local_cache' = IF Len(local_cache[t].entries) < LOCAL_CACHE_CAP
                   THEN [local_cache EXCEPT ![t].entries = Append(@, <<op, ptr>>)]
                   ELSE local_cache

\* line 38-41
StartOperatorEntry(t) ==
    /\ \E op \in TrackedOps : Enter(t, "start_validate", op, 0)
    /\ UNCHANGED <<booster, interface, collector, vectoring, extracting, training, planning, generation,
                   operator_stats, cells, local_cache, requested, resets, stale>>

\* lines 43-48
StartOperatorValidate(t) ==
    /\ at[t] = "start_validate"
    /\ ValidateCache(t)
    /\ at' = [at EXCEPT ![t] = "start_scan"]
    /\ UNCHANGED <<booster, interface, collector, vectoring, extracting, training, planning, generation,
                   operator_stats, cells, arg, requested, resets, stale,
                   tracker_calls>>

\* lines 50-55: found in the thread's cache, nothing to do
StartOperatorScan(t) ==
    /\ at[t] = "start_scan"
    /\ IF Cached(t, arg[t].op)
       THEN Leave(t)
       ELSE at' = [at EXCEPT ![t] = "start_slow"] /\ UNCHANGED arg
    /\ UNCHANGED <<booster, interface, collector, vectoring, extracting, training, planning, generation,
                   operator_stats, cells, local_cache, requested, resets, stale,
                   tracker_calls>>

\* lines 57-69, under the lock: operator_stats[*phys_op] makes the node if there
\* is none
StartOperatorSlow(t) ==
    /\ at[t] = "start_slow"
    /\ LET op == arg[t].op
           fresh == operator_stats[op] = Null
           ptr == IF fresh THEN Len(cells) + 1 ELSE operator_stats[op]
       IN /\ operator_stats' = [operator_stats EXCEPT ![op] = ptr]
          /\ cells' = IF fresh
                      THEN Append(cells, [live |-> TRUE, op |-> op,
                                          actual_cardinality |-> 0])
                      ELSE cells
          /\ Remember(t, op, ptr)
    /\ Leave(t)
    /\ UNCHANGED <<booster, interface, collector, vectoring, extracting, training, planning, generation,
                   requested, resets, stale, tracker_calls>>

\* line 73 if a single row were skipped too
NoRowsOrOne(actual_rows) == actual_rows <= 1
\* line 73: actual_rows == 0
NoRows(actual_rows) == actual_rows = 0

\* lines 72-75
EndOperatorEntry(t) ==
    /\ \E op \in TrackedOps, actual_rows \in 0..MaxBatch :
          /\ IF NoRows(actual_rows)
             THEN /\ at[t] = "out" /\ tracker_calls < MaxTrackerCalls
                  /\ tracker_calls' = tracker_calls + 1
                  /\ UNCHANGED <<at, arg>>
             ELSE Enter(t, "end_validate", op, actual_rows)
          /\ requested' = IF operator_stats[op] # Null
                          THEN [requested EXCEPT ![op] = @ + actual_rows]
                          ELSE requested
    /\ UNCHANGED <<booster, interface, collector, vectoring, extracting, training, planning, generation,
                   operator_stats, cells, local_cache, resets, stale>>

\* lines 77-82
EndOperatorValidate(t) ==
    /\ at[t] = "end_validate"
    /\ ValidateCache(t)
    /\ at' = [at EXCEPT ![t] = "end_scan"]
    /\ UNCHANGED <<booster, interface, collector, vectoring, extracting, training, planning, generation,
                   operator_stats, cells, arg, requested, resets, stale,
                   tracker_calls>>

\* RLOperatorStats::AddActualRows on the node ptr points to: an atomic add
AddActualRows(ptr, actual_rows) ==
    cells' = [cells EXCEPT ![ptr].actual_cardinality = @ + actual_rows]

\* lines 84-90: entry.second->AddActualRows(actual_rows).  A pointer to a node
\* that Reset has destroyed is dangling: the add is lost or lands in whatever
\* node now lives there.
EndOperatorScan(t) ==
    /\ at[t] = "end_scan"
    /\ LET op == arg[t].op
           ptr == Lookup(local_cache[t].entries, op)
       IN IF Cached(t, op)
          THEN /\ Leave(t)
               /\ IF cells[ptr].live
                  THEN AddActualRows(ptr, arg[t].rows) /\ UNCHANGED stale
                  ELSE /\ stale' = TRUE
                       /\ \/ UNCHANGED cells
                          \/ \E other \in 1..Len(cells) :
                                /\ cells[other].live
                                /\ AddActualRows(other, arg[t].rows)
          ELSE /\ at' = [at EXCEPT ![t] = "end_slow"]
               /\ UNCHANGED <<arg, cells, stale>>
    /\ UNCHANGED <<booster, interface, collector, vectoring, extracting, training, planning, generation,
                   operator_stats, local_cache, requested, resets, tracker_calls>>

\* lines 92-101, under the lock
EndOperatorSlow(t) ==
    /\ at[t] = "end_slow"
    /\ LET op == arg[t].op
           ptr == operator_stats[op]
       IN IF ptr # Null
          THEN /\ AddActualRows(ptr, arg[t].rows) /\ Remember(t, op, ptr)
               /\ requested' = IF arg[t].counted THEN requested
                               ELSE [requested EXCEPT ![op] = @ + arg[t].rows]
          ELSE UNCHANGED <<cells, local_cache, requested>>
    /\ Leave(t)
    /\ UNCHANGED <<booster, interface, collector, vectoring, extracting, training, planning, generation,
                   operator_stats, resets, stale, tracker_calls>>

\* lines 131-140, under the lock: generation++, operator_stats.clear()
Reset(t) ==
    /\ at[t] = "out"
    /\ tracker_calls < MaxTrackerCalls
    /\ tracker_calls' = tracker_calls + 1
    /\ generation' = generation + 1
    /\ operator_stats' = [o \in TrackedOps |-> Null]
    /\ cells' = [i \in 1..Len(cells) |-> [cells[i] EXCEPT !.live = FALSE]]
    /\ resets' = resets + 1
    /\ UNCHANGED <<booster, interface, collector, vectoring, extracting, training, planning, local_cache,
                   at, arg, requested, stale>>

InitTracker ==
    /\ BoosterIdle
    /\ InterfaceFresh(0, 0)
    /\ CollectorEmpty(0)
    /\ TrainingIdle
    /\ PlanningIdle
    /\ VectorIdle
    /\ ExtractIdle
    /\ TrackerFresh

TrackerStep(t) ==
    \/ StartOperatorEntry(t) \/ StartOperatorValidate(t) \/ StartOperatorScan(t)
    \/ StartOperatorSlow(t)
    \/ EndOperatorEntry(t) \/ EndOperatorValidate(t) \/ EndOperatorScan(t)
    \/ EndOperatorSlow(t)
    \/ Reset(t)

NextTracker == \E t \in Threads : TrackerStep(t)

SpecTracker == InitTracker /\ [][NextTracker]_vars

\* ------------------------------------------------------ FeaturesToVector
\* What FeaturesToVector reads of the features to decide where it writes: whether
\* table_name, join_type, filter_types are empty, whether there are column
\* statistics, which join and comparison type, whether there are aggregates;
\* operator_type is the kind of operator the record was extracted from and
\* estimated_cardinality the engine estimate written as the context feature.
OperatorTypes == {"GET", "FILTER", "COMPARISON_JOIN", "AGGREGATE_AND_GROUP_BY",
                  "PROJECTION"}
Cardinalities == {0, 1, 100}
FeatureSpace ==
    [table_name : {"", "t"}, column_stats : BOOLEAN,
     join_type : {"", "INNER", "ANTI", "MARK"},
     comparison_type_join : {"EQUAL", "NOTEQUAL", "DISTINCT"},
     filter_types : BOOLEAN, aggregates : BOOLEAN,
     operator_type : {"PROJECTION"}, estimated_cardinality : Cardinalities]

\* feature_vec[idx++] = ..., n times
Write(v, n) == [v EXCEPT !.written = @ \cup (v.idx..(v.idx + n - 1)),
                         !.idx = @ + n]
\* feature_vec[idx + offset] = 1.0
WriteAt(v, offset) == [v EXCEPT !.written = @ \cup {v.idx + offset}]
\* idx += n
Skip(v, n) == [v EXCEPT !.idx = @ + n]
\* lines 372-374: safe_log(val) is 0.0 for val = 0 and log(val) otherwise, which
\* is 0.0 for val = 1 too
SafeLogIsZero(val) == val <= 1
\* feature_vec[idx++] = safe_log(val); zero collects the positions written
\* with 0.0
WriteLog(v, val) ==
    [Write(v, 1) EXCEPT !.zero = IF SafeLogIsZero(val) THEN @ \cup {v.idx}
                                 ELSE @ \ {v.idx}]
Then(v, stage) == [v EXCEPT !.stage = stage]

\* a vector as long as the blocks the function names
AllocatedByBlocks(features) ==
    TYPE_BLOCK + SCAN_BLOCK + JOIN_BLOCK + AGGREGATE_BLOCK + FILTER_BLOCK + 1
\* line 368: vector<double> feature_vec(FEATURE_VECTOR_SIZE, 0.0)
Allocated(features) == INTERFACE_FEATURE_VECTOR_SIZE

\* lines 367-369
Begin(features) ==
    [stage |-> "type", features |-> features, size |-> Allocated(features),
     written |-> {}, zero |-> {}, idx |-> 0]

\* lines 376-390
JoinTypeOffset(join_type) ==
    CASE join_type = "INNER" -> 0
      [] join_type = "LEFT" -> 1
      [] join_type = "RIGHT" -> 2
      [] join_type = "SEMI" -> 3
      [] join_type = "ANTI" -> 4
      [] OTHER -> 0 - 1
ComparisonOffset(comparison_type) ==
    CASE comparison_type = "EQUAL" -> 0
      [] comparison_type = "LESSTHAN" -> 1
      [] comparison_type = "GREATERTHAN" -> 2
      [] comparison_type = "LESSTHANOREQUALTO" -> 3
      [] comparison_type = "GREATERTHANOREQUALTO" -> 4
      [] comparison_type = "NOTEQUAL" -> 5
      [] OTHER -> 0 - 1
IsFilter(f) == f.filter_types /\ f.table_name = ""

OperatorTypeBlock ==
    /\ fv.stage = "type"
    /\ LET f == fv.features
           offset == IF f.table_name # "" THEN 0
                     ELSE IF f.join_type # "" THEN 1
                     ELSE IF IsFilter(f) THEN 2
                     ELSE IF f.aggregates THEN 3
                     ELSE 9
       IN fv' = Then(Skip(WriteAt(fv, offset), TYPE_BLOCK), "scan")
    /\ UNCHANGED <<booster, interface, collector, training, planning, tracker,
                   extracting>>

\* lines 392-457
TableScanBlock ==
    /\ fv.stage = "scan"
    /\ LET f == fv.features
           head == Write(fv, 7)
           stats == IF f.column_stats THEN Write(head, 8) ELSE Skip(head, 8)
       IN fv' = Then(IF f.table_name # "" THEN Write(stats, 6)
                     ELSE Skip(fv, SCAN_BLOCK), "join")
    /\ UNCHANGED <<booster, interface, collector, training, planning, tracker,
                   extracting>>

\* lines 459-529
JoinBlock ==
    /\ fv.stage = "join"
    /\ LET f == fv.features
           head == Write(fv, 4)
           jt == JoinTypeOffset(f.join_type)
           kind == Skip(IF jt >= 0 THEN WriteAt(head, jt) ELSE head, 5)
           ct == ComparisonOffset(f.comparison_type_join)
           cmp == Skip(IF ct >= 0 THEN WriteAt(kind, ct) ELSE kind, 6)
       IN fv' = Then(IF f.join_type # "" THEN Write(Write(cmp, 6), 6)
                     ELSE Skip(fv, JOIN_BLOCK), "aggregate")
    /\ UNCHANGED <<booster, interface, collector, training, planning, tracker,
                   extracting>>

\* lines 531-539
AggregateBlock ==
    /\ fv.stage = "aggregate"
    /\ fv' = Then(IF fv.features.aggregates THEN Write(fv, 4)
                  ELSE Skip(fv, AGGREGATE_BLOCK), "filter")
    /\ UNCHANGED <<booster, interface, collector, training, planning, tracker,
                   extracting>>

\* lines 541-547
FilterBlock ==
    /\ fv.stage = "filter"
    /\ fv' = Then(IF IsFilter(fv.features) THEN Write(fv, 2)
                  ELSE Skip(fv, FILTER_BLOCK), "context")
    /\ UNCHANGED <<booster, interface, collector, training, planning, tracker,
                   extracting>>

\* lines 549-556
ContextBlock ==
    /\ fv.stage = "context"
    /\ fv' = Then(WriteLog(fv, fv.features.estimated_cardinality), "returned")
    /\ UNCHANGED <<booster, interface, collector, training, planning, tracker,
                   extracting>>

InitVector ==
    /\ BoosterIdle
    /\ InterfaceFresh(0, 0)
    /\ CollectorEmpty(0)
    /\ TrainingIdle
    /\ PlanningIdle
    /\ TrackerFresh
    /\ ExtractIdle
    /\ \E features \in FeatureSpace : fv = Begin(features)

NextVector ==
    \/ OperatorTypeBlock \/ TableScanBlock \/ JoinBlock \/ AggregateBlock
    \/ FilterBlock \/ ContextBlock

SpecVector == InitVector /\ [][NextVector]_vars

\* ------------------------------- ExtractFeatures followed by FeaturesToVector
\* What ExtractFeatures reads of a logical operator: its type, its estimate,
\* whether the collector has an entry for it (collected) and whether that entry
\* has column statistics or filters, whether a filter or aggregate has
\* expressions, and the join and comparison type of a join.
Operators ==
    [type : OperatorTypes, estimated_cardinality : Cardinalities,
     collected : BOOLEAN, column_stats : BOOLEAN, expressions : BOOLEAN,
     join_type : {"INNER", "MARK"}, comparison_type : {"EQUAL", "DISTINCT"}]

\* lines 264-365: the record ExtractFeatures returns for op
ExtractedFeatures(op) ==
    LET basic == [NoFeatures EXCEPT !.operator_type = op.type,
                     !.estimated_cardinality = op.estimated_cardinality]
    IN CASE op.type = "GET" ->
              IF op.collected
              THEN [basic EXCEPT !.table_name = "t",
                                 !.column_stats = op.column_stats,
                                 !.filter_types = op.expressions]
              ELSE basic
         [] op.type = "FILTER" ->
              [basic EXCEPT !.filter_types = op.expressions]
         [] op.type = "COMPARISON_JOIN" ->
              [basic EXCEPT !.join_type = op.join_type,
                            !.comparison_type_join =
                                IF op.collected THEN op.comparison_type ELSE ""]
         [] op.type = "AGGREGATE_AND_GROUP_BY" ->
              [basic EXCEPT !.aggregates = op.expressions]
         [] OTHER -> basic

InitEncode ==
    /\ BoosterIdle
    /\ InterfaceFresh(0, 0)
    /\ CollectorEmpty(0)
    /\ TrainingIdle
    /\ PlanningIdle
    /\ TrackerFresh
    /\ ExtractIdle
    /\ \E op \in Operators : fv = Begin(ExtractedFeatures(op))

SpecEncode == InitEncode /\ [][NextVector]_vars

\* ------------------------------------------- the cap scenario (one caller)
\* A freshly bootstrapped model with max_total_trees = 20 and trees_per_update
\* = 3 whose single caller makes UpdateIncremental calls in which no
\* XGBoosterUpdateOneIter fails.
InitCap ==
    /\ max_total_trees = CapScenarioMaxTrees
    /\ trees_per_update = CapScenarioTreesPerUpdate
    /\ swap_every \in 0..CapScenarioMaxSwapEvery
    /\ call_budget = CapScenarioCalls
    /\ Constructed /\ active_booster # Null
    /\ InterfaceFresh(0, 0)
    /\ CollectorEmpty(0)
    /\ BeyondIdle

\* lines 463-491 when every tree-update succeeds
UpdateTrainOk == UpdateTrain(1) /\ upd'[1].iters = upd'[1].ok_iters

NextCap ==
    \/ UpdateEntry(1) \/ UpdateLockTrain(1) \/ EnsureLockPredict(1)
    \/ EnsureSnapshot(1) \/ EnsureClone(1) \/ UpdateTrainOk
    \/ SwapLock(1) \/ SwapBooster(1) \/ SwapTrees(1) \/ SwapFinish(1)
    \/ UpdateUnlock(1) \/ GetNumTreesCall(1) \/ Return(1)

SpecCap == InitCap /\ [][NextCap]_vars


\* ======================================================== the properties
InferPcs == {"p_infer", "b_infer"}
ResetPcs == {"r_free", "r_zero_n", "r_zero_u", "r_init_n", "r_init_b", "r_finish"}
\* UpdateIncremental after the training loop, train_lock still held
TrainedPcs == {"u_swap_lock", "u_swap_b", "u_swap_n", "u_swap_u", "u_unlock"}
UpdateLockedPcs == {"u_ens_lock", "u_ens_load", "u_clone", "u_train"} \cup TrainedPcs

\* the mutex a thread is asking for at its program point
Requested(t) ==
    CASE pc[t] \in {"p_lock", "b_lock", "u_ens_lock", "u_swap_lock"} -> "predict"
      [] pc[t] = "u_lock" -> "train"
      [] pc[t] = "r_lock1" -> ResetLockOrder[1]
      [] pc[t] = "r_lock2" -> ResetLockOrder[2]
      [] OTHER -> "none"
Blocked(t) == Requested(t) # "none" /\ Holder(Requested(t)) # NoThread

\* C1 (as claimed): no inference call is ever made on a booster handle that has
\* been freed - a thread about to run XGBoosterPredictFromDense / XGBoosterPredict
\* under predict_lock holds a handle that is still live.
C1_NoInferenceOnFreedBooster ==
    \A t \in Threads : pc[t] \in InferPcs => rd[t].booster \in live

\* C2: a Predict (PredictBatch) call that observed num_trees <= 1 returns 0 (an
\* empty output) whatever its input, and every IsReady() call returns exactly
\* initialized /\ num_trees > 1.
C2_SentinelDiscipline ==
    /\ [](\A t \in Threads :
            /\ (pc[t] = "p_done" /\ rd[t].trees <= 1) => result[t] = 0
            /\ (pc[t] = "b_done" /\ rd[t].trees <= 1) => result[t] = <<>>)
    /\ [][\A t \in Threads :
            (pc[t] = "idle" /\ pc'[t] = "ready_done")
               => (result'[t] <=> (initialized /\ num_trees > 1))]_vars

\* C2 witness: a Predict call with a well-formed vector that loaded the bootstrap
\* booster, saw num_trees = 1 and returned 0, while IsReady() answered FALSE.
C2_Witness ==
    \E t, s \in Threads :
       /\ pc[t] = "p_done" /\ rd[t].booster # Null /\ rd[t].trees = 1
       /\ result[t] = 0
       /\ pc[s] = "ready_done" /\ result[s] = FALSE /\ initialized

\* C3: lock order train_lock -> predict_lock: no thread asks for train_lock while
\* it holds predict_lock, none asks for a mutex it holds, and whenever a thread
\* waits for a mutex the holder of that mutex is not itself waiting (no deadlock).
C3_LockOrderNoDeadlock ==
    \A t \in Threads :
       /\ Requested(t) = "train" => predict_lock # t
       /\ Requested(t) # "none" => Holder(Requested(t)) # t
       /\ Blocked(t) => ~Blocked(Holder(Requested(t)))

\* C3 witness: a thread holds both mutexes (inside ResetModel, the snapshot or the
\* swap) while another thread waits for one of them.
C3_Witness ==
    \E t, s \in Threads :
       /\ train_lock = t /\ predict_lock = t
       /\ s # t /\ Blocked(s)

\* C4 (as claimed): a call that passed the readiness check runs inference on the
\* booster that belongs to the tree count it observed (no torn mix of an old
\* handle with new counters).
C4_ReaderSeesMatchingBooster ==
    \A t \in Threads :
       pc[t] \in InferPcs => btrees[rd[t].booster] = rd[t].trees

\* C5: unless a ResetModel is running, no step lowers num_trees, so the values
\* readers load from it never decrease.
C5_NumTreesMonotone ==
    [][(\E t \in Threads : pc[t] \in ResetPcs) \/ num_trees' >= num_trees]_vars

\* C5 witness: two swaps have published growth (num_trees went 1 -> 2 -> 3 or more).
C5_Witness == total_updates >= 2 /\ num_trees >= 3

\* C6 (as claimed): num_trees <= max_total_trees and
\* training_num_trees <= max_total_trees in every reachable state.
C6_CapHonored ==
    /\ num_trees <= max_total_trees
    /\ training_num_trees <= max_total_trees

\* C6 (amended): both counters stay within max(1, max_total_trees): the bootstrap
\* tree is there whatever the cap, and updates never pass the cap.
C6_CapHonoredAboveBootstrap ==
    /\ num_trees <= Max(1, max_total_trees)
    /\ training_num_trees <= Max(1, max_total_trees)

\* C6 witness: an update was cut short by the cap (it added fewer trees than
\* trees_per_update although no iteration failed) and the published count sits
\* exactly at the cap.
C6_Witness ==
    \E t \in Threads :
       /\ pc[t] = "u_unlock" /\ upd[t].swapped
       /\ upd[t].trees_added > 0 /\ upd[t].trees_added < trees_per_update
       /\ upd[t].iters = upd[t].ok_iters
       /\ num_trees = max_total_trees

Remaining(cur) == IF cur >= max_total_trees THEN 0 ELSE max_total_trees - cur

C9_SwapOnlyWhenTreeAdded ==
    \A t \in Threads :
       (pc[t] = "u_unlock" /\ upd[t].swapped) => upd[t].trees_added > 0

\* C9 (amended): the shadow is published by exactly those calls that reach the
\* training loop for which training_update_calls (every such call since the last
\* bootstrap, whether or not it added a tree) is a multiple of swap_every > 0; at
\* a swap the active counters become the shadow's, the active handle is the live
\* trained booster, the old active booster is freed and the shadow is null;
\* without a swap the shadow stays and the active booster is untouched.
C9_SwapPeriod ==
    \A t \in Threads :
       pc[t] = "u_unlock"
          => /\ upd[t].swapped
                  <=> (swap_every > 0 /\ training_update_calls % swap_every = 0)
             /\ upd[t].swapped
                  => /\ num_trees = training_num_trees
                     /\ total_updates = training_total_updates
                     /\ active_booster \in live
                     /\ btrees[active_booster] = num_trees
                     /\ upd[t].old_active \notin live
                     /\ training_booster = Null
             /\ ~upd[t].swapped
                  => /\ training_booster \in live
                     /\ training_booster # active_booster
                     /\ num_trees = upd[t].old_num

\* C9 witness: the second call of a period of two publishes the trees of both.
C9_Witness ==
    \E t \in Threads :
       /\ pc[t] = "u_unlock" /\ upd[t].swapped
       /\ swap_every = 2 /\ training_update_calls = 2
       /\ upd[t].trees_added > 0 /\ upd[t].base > upd[t].old_num

C11_FailedUpdateLeavesShadow ==
    \A t \in Threads :
       (pc[t] \in TrainedPcs /\ upd[t].iters > upd[t].ok_iters)
          => /\ training_num_trees = upd[t].base
             /\ training_total_updates = upd[t].base_updates
             /\ (pc[t] = "u_unlock" /\ upd[t].swapped) => num_trees = upd[t].base

PredictPcs == {"p_load_b", "p_load_n", "p_check", "p_lock", "p_infer", "p_done"}
UpdatePcs == {"u_lock", "u_done"} \cup UpdateLockedPcs

\* C12: a Predict call with a feature vector whose length is not
\* FEATURE_VECTOR_SIZE returns 0 at once, an UpdateIncremental call with fewer
\* than 10 samples returns at once, and no step of either call (its return
\* included) changes num_trees, total_updates, a booster, a shadow counter or
\* a lock.
C12_SilentPrecondition ==
    [][\A t \in Threads :
          /\ (/\ pc'[t] # pc[t] /\ pc'[t] \in PredictPcs
              /\ rd'[t].width # FEATURE_VECTOR_SIZE)
                => /\ pc'[t] = "p_done" /\ result'[t] = 0
                   /\ UNCHANGED <<model, locks>>
          /\ (/\ pc'[t] # pc[t] /\ pc'[t] \in UpdatePcs
              /\ upd'[t].n < MIN_UPDATE_SAMPLES)
                => /\ pc'[t] = "u_done"
                   /\ UNCHANGED <<model, locks>>
          /\ (/\ pc[t] \in {"p_done", "u_done"} /\ pc'[t] = "idle"
              /\ (rd[t].width # FEATURE_VECTOR_SIZE
                     \/ upd[t].n < MIN_UPDATE_SAMPLES))
                => UNCHANGED <<model, locks>>
      ]_vars

\* C12 witness: with a trained shadow in progress, one thread has returned from
\* Predict with a short feature vector and the other from UpdateIncremental with
\* 9 samples.
C12_Witness ==
    \E t, u \in Threads :
       /\ pc[t] = "p_done" /\ rd[t].width = FEATURE_VECTOR_SIZE - 1
       /\ pc[u] = "u_done" /\ upd[u].n = MIN_UPDATE_SAMPLES - 1
       /\ training_booster # Null /\ training_num_trees > 1

\* the model state ResetModel and the constructor are to establish (initialized
\* is set by the caller of InitializeBooster right after)
ShadowCleared ==
    /\ total_updates = 0
    /\ training_booster = Null
    /\ training_num_trees = 0
    /\ training_total_updates = 0
    /\ training_update_calls = 0
Bootstrapped ==
    /\ num_trees = 1
    /\ active_booster \in live /\ btrees[active_booster] = 1
    /\ ShadowCleared
\* InitializeBooster returned early on a library error
BootstrapFailed ==
    /\ num_trees = 0
    /\ active_booster = Null
    /\ ShadowCleared

\* C13 (as claimed): right after construction, and when ResetModel is about to
\* return, num_trees = 1, total_updates = 0, the shadow is null, the three
\* shadow counters are 0 and the model is not ready.
C13_BootstrapState ==
    /\ writer_calls = 0 => (Bootstrapped /\ ~IsReady)
    /\ \A t \in Threads : pc[t] = "r_finish" => (Bootstrapped /\ ~IsReady)

\* C13 (amended): right after construction, and when ResetModel is about to
\* return, the model is not ready, total_updates is 0, the shadow is null and
\* the shadow counters are 0; num_trees is 1 with a live one-tree active booster
\* when the bootstrap succeeded, and 0 with a null active booster when a library
\* call of the bootstrap failed.
C13_BootstrapOrNoBooster ==
    /\ writer_calls = 0 => ((Bootstrapped \/ BootstrapFailed) /\ ~IsReady)
    /\ \A t \in Threads :
          pc[t] = "r_finish" => ((Bootstrapped \/ BootstrapFailed) /\ ~IsReady)

\* C13 witness: ResetModel is about to return on a model that had published a
\* trained booster: the handles of the first bootstrap and of the published
\* shadow are freed and a third one is the active bootstrap booster.
C13_Witness ==
    \E t \in Threads :
       /\ pc[t] = "r_finish" /\ Bootstrapped
       /\ active_booster >= 3 /\ live = {active_booster}

\* CapScenarioUpdates calls have run their training loop and the last of them
\* has left the locked section
CapScenarioDone ==
    \/ training_update_calls > CapScenarioUpdates
    \/ training_update_calls = CapScenarioUpdates /\ pc[1] \notin UpdateLockedPcs

PhysicalKinds == {"nonjoin", "capped", "hit", "engine", "model"}

\* C15 (as claimed): within one query the thread calls RLBoostingModel::Predict
\* from GetCardinalityEstimate at most MAX_PHYSICAL_PREDICTIONS times.
C15_AtMostPModelCalls ==
    answer.asks <= physical_cap

\* C15 (amended): within one query the thread obtains at most
\* MAX_PHYSICAL_PREDICTIONS positive predictions from the model, each counted and
\* cached; a Predict call that returns 0 is not counted; a call made once the
\* count has reached the cap returns the engine estimate without calling
\* Predict.
C15_CapOnCountedPredictions ==
    /\ physical_prediction_count <= physical_cap
    /\ cached_query_id = query_id
          => physical_prediction_count = Size(physical_prediction_cache)
    /\ answer.kind \in PhysicalKinds
          => /\ answer.before >= physical_cap
                  => /\ answer.kind \in {"nonjoin", "capped"}
                     /\ answer.value = answer.est
                     /\ ~answer.asked
             /\ answer.kind = "model"
                  => /\ answer.value > 0 /\ answer.asked
                     /\ physical_prediction_count = answer.before + 1
             /\ answer.kind = "engine"
                  => /\ answer.value = answer.est /\ answer.asked
                     /\ physical_prediction_count = answer.before

\* C15 witness: the cap is reached and a join got the engine estimate, in a
\* query in which Predict had been called more often than the cap.
C15_Witness ==
    /\ answer.kind = "capped" /\ answer.asks > physical_cap
    /\ physical_prediction_count = physical_cap
    /\ physical_cap = MaxPhysicalCap

C17_CachesWithinLimit ==
    /\ Size(prediction_cache) <= cache_limit
    /\ physical_cap <= cache_limit
          => Size(physical_prediction_cache) <= cache_limit

\* C17 (amended): the predictor callback's cache holds at most limit + 1 = 5001
\* entries, and a callback that finds more than the limit clears it in full
\* before it inserts, otherwise it keeps every entry; the physical-side cache has
\* no overflow clear and holds at most MAX_PHYSICAL_PREDICTIONS = 300 entries.
C17_CacheBounds ==
    /\ [](/\ Size(prediction_cache) <= cache_limit + 1
          /\ Size(physical_prediction_cache) <= physical_cap
          /\ MAX_PHYSICAL_PREDICTIONS <= PREDICTION_CACHE_LIMIT)
    /\ [][prediction_cache' # prediction_cache
            => IF Size(prediction_cache) > cache_limit
               THEN Size(prediction_cache') = 1
               ELSE \A k \in DOMAIN prediction_cache :
                       /\ k \in DOMAIN prediction_cache'
                       /\ prediction_cache'[k] = prediction_cache[k]]_vars

\* C17 witness: the predictor callback found its cache over the limit, cleared
\* it and inserted, while the physical-side cache is at its own maximum.
C17_Witness ==
    /\ answer.kind = "plan" /\ answer.cleared
    /\ Size(prediction_cache) = 1
    /\ Size(physical_prediction_cache) = physical_cap

\* C18 (as claimed): after 600 insertions of distinct fingerprints exactly one
\* wholesale clear has occurred and the relation-set map holds 1 entry.
C18_OneClearSizeOne ==
    inserts = OverflowScenarioAdds
       => /\ clears = 1
          /\ Size(join_features_by_relation_set) = 1

\* C18 (amended): exactly one wholesale clear has occurred, at the 502nd
\* insertion, which leaves the map with 1 entry; after the 600th insertion the
\* map holds 600 - 501 = 99 entries.
C18_OneClearSizeRest ==
    /\ inserts <= size_limit + 1
          => clears = 0 /\ Size(join_features_by_relation_set) = inserts
    /\ inserts > size_limit + 1
          => /\ clears = 1
             /\ Size(join_features_by_relation_set) = inserts - (size_limit + 1)
    /\ inserts = OverflowScenarioAdds
          => Size(join_features_by_relation_set)
                = OverflowScenarioAdds - (COLLECTOR_LIMIT + 1)

\* C18 witness: the insertion that cleared the map has just been made.
C18_Witness ==
    /\ inserts = COLLECTOR_LIMIT + 2 /\ clears = 1
    /\ Size(join_features_by_relation_set) = 1

\* C19 (as claimed): each of the five collector maps holds at most B + 1
\* entries in every state.
C19_MapsBounded ==
    /\ Size(table_scan_features) <= size_limit + 1
    /\ Size(join_features) <= size_limit + 1
    /\ Size(join_features_by_relation_set) <= size_limit + 1
    /\ Size(join_features_by_estimate) <= size_limit + 1
    /\ Size(filter_features) <= size_limit + 1

\* C20 (as claimed): for every key and value, an Add* made twice in succession
\* leaves the maps as the Add* made once.
C20_AddIdempotent ==
    /\ \A k \in Keys, v \in Features :
          /\ AddTo(AddTo(table_scan_features, k, v), k, v)
                = AddTo(table_scan_features, k, v)
          /\ AddTo(AddTo(filter_features, k, v), k, v) = AddTo(filter_features, k, v)
    /\ \A k \in Keys, f \in JoinFeatures :
          /\ AddTo(AddTo(join_features, k, f), k, f) = AddTo(join_features, k, f)
          /\ LET once == AddRel(join_features_by_relation_set,
                                join_features_by_estimate, k, f)
             IN AddRel(once[1], once[2], k, f) = once

\* the maps after Add(k, v) made twice, given the map after it was made once
TwiceAsExpected(once, twice, k, v) ==
    IF Size(once) <= size_limit THEN twice = once ELSE twice = Put(EmptyMap, k, v)

\* C20 (amended): an Add* made twice in succession leaves the maps as the Add*
\* made once whenever the target map holds at most B entries after the first;
\* when the first leaves it with B + 1 entries, the second clears it (and, for the
\* relation-set method, the by-estimate map) and leaves only the entry added.
C20_AddIdempotentBelowLimit ==
    /\ \A k \in Keys, v \in Features :
          /\ TwiceAsExpected(AddTo(table_scan_features, k, v),
                             AddTo(AddTo(table_scan_features, k, v), k, v), k, v)
          /\ TwiceAsExpected(AddTo(filter_features, k, v),
                             AddTo(AddTo(filter_features, k, v), k, v), k, v)
    /\ \A k \in Keys, f \in JoinFeatures :
          /\ TwiceAsExpected(AddTo(join_features, k, f),
                             AddTo(AddTo(join_features, k, f), k, f), k, f)
          /\ LET once == AddRel(join_features_by_relation_set,
                                join_features_by_estimate, k, f)
                 twice == AddRel(once[1], once[2], k, f)
             IN /\ TwiceAsExpected(once[1], twice[1], k, f)
                /\ IF Size(once[1]) <= size_limit
                   THEN twice[2] = once[2]
                   ELSE twice[2] = (IF f > 0 THEN Put(EmptyMap, f, f) ELSE EmptyMap)

\* C20 witness: the relation-set map is one entry short of the limit + 1 and the
\* by-estimate map is not empty, so a new key added twice is cleared away the
\* second time with everything else.
C20_Witness ==
    /\ Size(join_features_by_relation_set) = size_limit
    /\ Size(join_features_by_estimate) > 0
    /\ Size(table_scan_features) = size_limit + 1

\* the samples pushed for operator o (its feature vector stands for it)
SamplesOf(o) == {i \in 1..Len(pushed) : pushed[i].features = o}

\* C21: when CollectActualCardinalities has finished, every operator of the plan
\* was visited once; every tracker with a prediction or an actual row has
\* emitted exactly one sample (features, actual, rl_pred) and is marked
\* collected; every other tracker has emitted nothing and is unmarked.
C21_OneSamplePerTracker ==
    /\ \A o \in Ops : emitted[o] <= visits[o] /\ visits[o] <= 1
    /\ phase = "collected" =>
          \A o \in PlanOps :
             LET rl_state == physical[o]
             IN /\ visits[o] = 1
                /\ IF /\ rl_state.attached
                      /\ \/ rl_state.rl_predicted_cardinality > 0
                         \/ rl_state.actual_cardinality > 0
                   THEN /\ emitted[o] = 1
                        /\ rl_state.has_actual_cardinality
                        /\ Cardinality(SamplesOf(o)) = 1
                        /\ \A i \in SamplesOf(o) :
                              /\ pushed[i].actual_cardinality
                                    = rl_state.actual_cardinality
                              /\ pushed[i].predicted_cardinality
                                    = rl_state.rl_predicted_cardinality
                   ELSE /\ emitted[o] = 0
                        /\ ~rl_state.has_actual_cardinality
                        /\ SamplesOf(o) = {}

\* C21 witness: a finished walk over a plan with a tracker that has rows but no
\* prediction (collected), a tracker that has neither (skipped) and an operator
\* without tracker.
C21_Witness ==
    /\ phase = "collected"
    /\ \E o \in PlanOps :
          /\ physical[o].attached /\ physical[o].rl_predicted_cardinality = 0
          /\ physical[o].actual_cardinality > 0 /\ emitted[o] = 1
    /\ \E o \in PlanOps :
          /\ physical[o].attached /\ physical[o].rl_predicted_cardinality = 0
          /\ physical[o].actual_cardinality = 0 /\ emitted[o] = 0
    /\ \E o \in PlanOps : ~physical[o].attached /\ visits[o] = 1

\* the execution hook has built an operator and attached a tracker to it
Attached == made.built /\ made.rl_state.attached

C23_FallbackOnAttach ==
    Attached =>
       /\ made.raw > 0 => made.rl_state.rl_predicted_cardinality = made.raw
       /\ made.raw = 0 => made.rl_state.rl_predicted_cardinality = made.captured
       /\ ~made.ready => made.rl_state.rl_predicted_cardinality = made.captured
       /\ hook.visits = 0 => made.captured = engine.estimated_cardinality

\* C23 witness: a tracker attached while the model was cold holds the engine's
\* positive estimate.
C23_Witness ==
    /\ Attached /\ ~made.ready /\ made.raw = 0
    /\ made.captured > 0
    /\ made.rl_state.rl_predicted_cardinality = engine.estimated_cardinality

\* C24 (as claimed): after a visit of the optimizer hook the operator's
\* estimated_cardinality is max(prediction, 1) if the prediction was positive
\* and what it was before otherwise.
C24_ReplacedOrUnchanged ==
    hook.visits > 0 =>
       IF hook.rl_pred > 0
       THEN logical.estimated_cardinality = Max2(hook.rl_pred, 1)
       ELSE logical.estimated_cardinality = hook.before

\* C24 (amended): after a visit of the optimizer hook the operator's
\* estimated_cardinality is max(prediction, 1) if the prediction was positive and
\* max(previous estimate, 1) otherwise: unchanged unless it was 0, when it
\* becomes 1; has_estimated_cardinality is set in both cases.
C24_ReplacedOrFloored ==
    hook.visits > 0 =>
       /\ logical.has_estimated_cardinality
       /\ IF hook.rl_pred > 0
          THEN logical.estimated_cardinality = Max2(hook.rl_pred, 1)
          ELSE /\ hook.before >= 1 => logical.estimated_cardinality = hook.before
               /\ hook.before = 0 => logical.estimated_cardinality = 1

\* C24 witness: the hook got no prediction for an operator estimated at 0 and
\* left it at 1.
C24_Witness ==
    /\ hook.visits > 0 /\ hook.rl_pred = 0 /\ hook.before = 0
    /\ logical.estimated_cardinality = 1

\* C25 (as claimed): duckdb_estimated_cardinality, when populated, is the
\* engine's original estimate and not a model prediction.
C25_ShadowIsEngineEstimate ==
    logical.has_duckdb_estimated_cardinality =>
       /\ logical.duckdb_estimated_cardinality = engine.estimated_cardinality
       /\ logical.duckdb_estimated_cardinality \notin hook.predictions

\* the last n samples pushed up to the i-th push
LastPushed(i, n) == SubSeq(pushed, i - n + 1, i)

\* C26: the buffer never holds more than its capacity, it holds the samples
\* pushed last (the oldest are the ones dropped), and GetRecentSamples(k)
\* returned the last min(k, Size()) samples pushed, in the order they were
\* pushed.
C26_RingBufferBound ==
    /\ Len(buffer) <= capacity
    /\ buffer = LastPushed(Len(pushed), Len(buffer))
    /\ Len(recent.samples) = Min2(recent.k, recent.size)
    /\ recent.samples = LastPushed(recent.upto, Min2(recent.k, recent.size))

\* C26 witness: more samples were pushed than the ring holds, the ring is
\* full, and GetRecentSamples was asked for fewer samples than it holds.
C26_Witness ==
    /\ Len(pushed) > capacity /\ Len(buffer) = capacity
    /\ recent.upto > capacity
    /\ recent.k > 0 /\ recent.k < recent.size
    /\ recent.samples # <<>>
    /\ \E i, j \in 1..Len(pushed) : pushed[i] # pushed[j]

\* zeros treated as 1
NonZero(n) == IF n = 0 THEN 1 ELSE n
SameQuotient(q, r) == q[1] * r[2] = r[1] * q[2]
One == <<1, 1>>

Quiescent == \A t \in Threads : at[t] = "out"
ActualCardinality(op) == cells[operator_stats[op]].actual_cardinality

\* C28: as long as Reset is not called, the actual cardinality of a registered
\* operator never exceeds the sum of the rows handed to EndOperator for it, and
\* equals that sum once every call has returned: no increment is lost.
C28_NoLostRows ==
    resets = 0 =>
       \A op \in TrackedOps :
          operator_stats[op] # Null =>
             /\ ActualCardinality(op) <= requested[op]
             /\ Quiescent => ActualCardinality(op) = requested[op]

\* C28 witness: two threads have added rows for the same operator, one through
\* its cache and one through the map, and all of them are counted.
C28_Witness ==
    /\ resets = 0 /\ Quiescent
    /\ \E op \in TrackedOps :
          /\ operator_stats[op] # Null
          /\ requested[op] >= 2 /\ ActualCardinality(op) = requested[op]
          /\ \A t \in Threads : Cached(t, op)

\* C29 (as claimed): no thread dereferences a cached pointer to a node that
\* Reset has removed.
C29_NoStaleDereference == ~stale

C31_LogLinePerSwap ==
    \A t \in Threads :
       /\ upd[t].log_lines > 0 => upd[t].swapped
       /\ pc[t] = "u_done" => upd[t].log_lines = IF upd[t].swapped THEN 1 ELSE 0

\* C31 amended: an UpdateIncremental call prints one "Incremental update #" line
\* when it got a shadow booster and ran its training step, whether or not it
\* published a swap, and none when it returned before that.
C31_LogLinePerTrainingCall ==
    \A t \in Threads :
       /\ upd[t].log_lines > 0 => upd[t].trained
       /\ pc[t] = "u_done" => upd[t].log_lines = IF upd[t].trained THEN 1 ELSE 0

\* C31 witness: a call that trained without publishing a swap has printed its
\* line, while another call returned early and printed nothing.
C31_Witness ==
    \E t, u \in Threads :
       /\ pc[t] = "u_done" /\ upd[t].trained /\ ~upd[t].swapped
       /\ upd[t].log_lines = 1
       /\ pc[u] = "u_done" /\ ~upd[u].trained /\ upd[u].log_lines = 0

HoldsBoth(t) == train_lock = t /\ predict_lock = t
SwapPcs == {"u_swap_b", "u_swap_n", "u_swap_u"}

\* C32 as claimed: a thread that holds train_lock and predict_lock together is
\* publishing the shadow booster inside UpdateIncremental.
C32_BothLocksOnlyInSwap ==
    \A t \in Threads : HoldsBoth(t) => pc[t] \in SwapPcs

\* C32 amended: a thread that holds train_lock and predict_lock together is
\* publishing the shadow booster inside UpdateIncremental, or reading the active
\* booster handle in EnsureTrainingBooster in order to clone it, or inside
\* ResetModel.
C32_BothLocksInSwapSnapshotReset ==
    \A t \in Threads :
       HoldsBoth(t) => pc[t] \in (SwapPcs \cup {"u_ens_load"} \cup ResetPcs)

\* C32 witness: both locks have been held together in each of the three places:
\* one thread holds them in ResetModel after an UpdateIncremental call that took
\* the snapshot and published a swap.
C32_Witness ==
    \E t \in Threads :
       /\ HoldsBoth(t) /\ pc[t] \in ResetPcs
       /\ \E u \in Threads : pc[u] = "u_done" /\ upd[u].swapped
                                /\ upd[u].snapshot # Null

BatchPcs == {"b_load_b", "b_load_n", "b_check", "b_lock", "b_infer", "b_done"}

\* C33: the thread that runs the tree-update iterations on the shadow booster
\* does not hold predict_lock; a thread inside Predict or PredictBatch never holds
\* train_lock; and when a Predict or PredictBatch call finds predict_lock taken,
\* its holder is inside an inference, the snapshot read of
\* EnsureTrainingBooster, a swap or ResetModel.
C33_TrainingDoesNotBlockPrediction ==
    \A t \in Threads :
       /\ pc[t] = "u_train" => predict_lock # t
       /\ pc[t] \in (PredictPcs \cup BatchPcs) => train_lock # t
       /\ (pc[t] \in {"p_lock", "b_lock"} /\ predict_lock # NoThread) =>
             pc[predict_lock] \in (InferPcs \cup {"u_ens_load"} \cup SwapPcs
                                    \cup ResetPcs)

\* C33 witness: one thread is about to run its tree-update iterations under
\* train_lock while another is inside an inference under predict_lock.
C33_Witness ==
    \E t, u \in Threads :
       /\ pc[t] = "u_train" /\ train_lock = t
       /\ pc[u] \in InferPcs /\ predict_lock = u

\* C34 as claimed: since the last reset no two UpdateIncremental calls have
\* passed the same iteration number to XGBoosterUpdateOneIter.
C34_IterationNumbersDistinct ==
    \A a, b \in passed : a.iteration = b.iteration => a.call = b.call

\* C34 amended: since the last reset no two UpdateIncremental calls have passed
\* the same iteration number to XGBoosterUpdateOneIter, except that the number a
\* call passed in a first iteration that failed, the call adding no tree, is
\* passed again by a later call; the iterations that succeeded all have
\* different numbers.
C34_IterationNumbersDistinctUnlessFailed ==
    \A a, b \in passed :
       (a.iteration = b.iteration /\ a.call < b.call) =>
          /\ ~a.ok /\ a.i = 0 /\ b.i = 0
          /\ \A c \in passed : c.call = a.call => c = a

\* C34 witness: two calls have each added a tree with a different iteration
\* number, and each of them published a swap, so that the second trained on a
\* shadow cloned anew.
C34_Witness ==
    /\ total_updates = 2 /\ swap_every = 1
    /\ \E a, b \in passed :
          a.call = 1 /\ b.call = 2 /\ a.ok /\ b.ok /\ a.iteration # b.iteration

\* the booster handle a thread is handing to a library call at its program
\* point: the inference of Predict / PredictBatch, XGBoosterSerializeToBuffer in
\* CloneBooster, XGBoosterFree in the swap and in ResetModel
HandleInUse(t) ==
    CASE pc[t] \in InferPcs -> rd[t].booster
      [] pc[t] = "u_clone" -> upd[t].snapshot
      [] pc[t] = "u_swap_u" -> upd[t].old_active
      [] pc[t] = "r_free" -> active_booster
      [] OTHER -> Null

\* C35: a thread that hands the active booster to a library call (inference,
\* serialization for the clone, free) holds predict_lock, and no two threads are
\* inside a library call on the same booster.
C35_ActiveBoosterSerialized ==
    /\ \A t \in Threads : HandleInUse(t) # Null => predict_lock = t
    /\ \A t, u \in Threads :
          (t # u /\ HandleInUse(t) # Null) => HandleInUse(t) # HandleInUse(u)

\* C36: ExtractFeatures never reads through a pointer returned by a collector
\* lookup after the entry it points to was erased or assigned to by an Add* or
\* Clear call of another thread.
C36_NoReadThroughStaleReference ==
    ~extract.dangling

\* C37 as claimed: a call of GetCardinalityEstimate whose fingerprint was cached
\* earlier in the query returns the cached value.
C37_CachedValueReturned ==
    (answer.kind \in PhysicalKinds /\ answer.cached > 0)
       => answer.value = answer.cached

\* C37 amended: a call of GetCardinalityEstimate whose fingerprint was cached
\* earlier in the query returns the cached value while the per-query count of
\* cached predictions is below the cap, and the engine estimate of the call once
\* the count has reached the cap.
C37_CachedValueReturnedBelowCap ==
    (answer.kind \in PhysicalKinds /\ answer.cached > 0)
       => answer.value = IF answer.before >= physical_cap THEN answer.est
                         ELSE answer.cached

\* C37 witness: with a cap above one, a call has asked for a cached fingerprint
\* after the cap was reached (and got the engine estimate).
C37_Witness ==
    /\ answer.kind = "capped" /\ answer.cached > 0
    /\ physical_cap > 1 /\ answer.value # answer.cached

\* C38: a prediction the join-order predictor callback returns from its cache
\* was computed in the current query: no call returns a value cached before the
\* last query boundary.
C38_NoStalePrediction ==
    answer.kind = "planhit" => answer.epoch = epoch

\* C39: an operator's tracker that is marked collected has contributed one
\* sample to the training buffer, however often CollectActualCardinalities
\* walked the plan.
C39_AtMostOneSamplePerTracker ==
    \A o \in Ops : physical[o].has_actual_cardinality => emitted[o] <= 1

\* C40: for a record ExtractFeatures produced, the vector FeaturesToVector
\* returns has exactly one of the 10 operator-type positions set, the position
\* of the record's operator kind (scan 0, join 1, filter 2, aggregate 3,
\* anything else 9); each of the table-scan, join, aggregate and filter blocks
\* that does not belong to that kind is all zeros, and so are the padding
\* positions after the context feature.
KindPosition(operator_type) ==
    CASE operator_type = "GET" -> 0
      [] operator_type = "COMPARISON_JOIN" -> 1
      [] operator_type = "FILTER" -> 2
      [] operator_type = "AGGREGATE_AND_GROUP_BY" -> 3
      [] OTHER -> 9
Block(first, width) == first..(first + width - 1)
ScanPositions == Block(TYPE_BLOCK, SCAN_BLOCK)
JoinPositions == Block(TYPE_BLOCK + SCAN_BLOCK, JOIN_BLOCK)
AggregatePositions == Block(TYPE_BLOCK + SCAN_BLOCK + JOIN_BLOCK, AGGREGATE_BLOCK)
FilterPositions ==
    Block(TYPE_BLOCK + SCAN_BLOCK + JOIN_BLOCK + AGGREGATE_BLOCK, FILTER_BLOCK)
ContextPosition ==
    TYPE_BLOCK + SCAN_BLOCK + JOIN_BLOCK + AGGREGATE_BLOCK + FILTER_BLOCK
NotZero(v) == v.written \ v.zero
AllZeros(v, positions) == NotZero(v) \cap positions = {}
C40_TypeOneHotAndUnusedBlocksZero ==
    fv.stage = "returned" =>
       LET kind == fv.features.operator_type
       IN /\ NotZero(fv) \cap Block(0, TYPE_BLOCK) = {KindPosition(kind)}
          /\ kind # "GET" => AllZeros(fv, ScanPositions)
          /\ kind # "COMPARISON_JOIN" => AllZeros(fv, JoinPositions)
          /\ kind # "AGGREGATE_AND_GROUP_BY" => AllZeros(fv, AggregatePositions)
          /\ kind # "FILTER" => AllZeros(fv, FilterPositions)
          /\ AllZeros(fv, (ContextPosition + 1)..(fv.size - 1))

=============================================================================
